---- MODULE Spec2Model ----
(***************************************************************************)
(* Model of the walletless E2E provider (createE2EProvider): the request   *)
(* router, the three handlers, the event bus and the control surface.      *)
(* Handlers are operators from a machine record to a machine record; the   *)
(* actions install their result into the variables.                        *)
(***************************************************************************)
EXTENDS Integers, Sequences, FiniteSets, TLC

VARIABLES internal, state, requestId, listeners, pending, last, connectEmits

vars == <<internal, state, requestId, listeners, pending, last, connectEmits>>

(***************************************************************************)
(* Bounds of the model.                                                    *)
(***************************************************************************)
\* request() calls per behaviour (requestId is an unbounded counter in the code)
MaxRequestId == 2
\* listeners registered at once, over all events
MaxListeners == 1
\* connect emissions counted before the counter saturates
MaxConnectEmits == 2

(***************************************************************************)
(* Strings.  A JS string the code measures or case-folds is a record of    *)
(* its length, its lower-cased text and its spelling; a string the code    *)
(* parses digit by digit is a sequence of one-character strings.           *)
(***************************************************************************)
Text(len, lower, spelled) == [length |-> len, lower |-> lower, spelled |-> spelled]

toLowerCase(s) == [s EXCEPT !.spelled = "lower"]

HexChars == <<"0", "1", "2", "3", "4", "5", "6", "7", "8", "9", "a", "b", "c", "d", "e", "f">>

UpperHexChars == <<"0", "1", "2", "3", "4", "5", "6", "7", "8", "9", "A", "B", "C", "D", "E", "F">>

IsHexChar(c) == \E i \in 1..16 : HexChars[i] = c \/ UpperHexChars[i] = c

HexVal(c) == (CHOOSE i \in 1..16 : HexChars[i] = c \/ UpperHexChars[i] = c) - 1

\* Number.prototype.toString(16) of a non-negative integer
RECURSIVE toString16(_)
toString16(n) == IF n < 16 THEN <<HexChars[n + 1]>>
                 ELSE Append(toString16(n \div 16), HexChars[(n % 16) + 1])

\* Number.prototype.toString() of a non-negative integer
RECURSIVE toString10(_)
toString10(n) == IF n < 10 THEN <<HexChars[n + 1]>>
                 ELSE Append(toString10(n \div 10), HexChars[(n % 10) + 1])

\* `0x${n.toString(16)}`
Hex0x(n) == <<"0", "x">> \o toString16(n)

NaN == -1

RECURSIVE HexPrefixValue(_, _, _)
HexPrefixValue(s, i, acc) ==
    IF i > Len(s) \/ ~IsHexChar(s[i]) THEN acc
    ELSE HexPrefixValue(s, i + 1, acc * 16 + HexVal(s[i]))

\* parseInt(s, 16): an optional 0x / 0X prefix, then the longest run of hex
\* digits; NaN when that run is empty
parseInt16(s) ==
    LET body == IF Len(s) >= 2 /\ s[1] = "0" /\ s[2] \in {"x", "X"}
                THEN SubSeq(s, 3, Len(s)) ELSE s
    IN IF Len(body) = 0 \/ ~IsHexChar(body[1]) THEN NaN
       ELSE HexPrefixValue(body, 1, 0)

(***************************************************************************)
(* constants.ts                                                            *)
(***************************************************************************)
DEFAULT_ANVIL_RPC_URL == "http://127.0.0.1:8545"

AnvilAddressLower ==
    <<"0xf39fd6e51aad88f6f4ce6ab8827279cfffb92266",
      "0x70997970c51812dc3a010c7d01b50e0d17dc79c8",
      "0x3c44cdddb6a900fa2b585dd299e03d12fa4293bc",
      "0x90f79bf6eb2c4f870365e785982e1f101e93b906",
      "0x15d34aaf54267db7d7c367839aaf71a00a2c6a65",
      "0x9965507d1a55bcc2695c58ba16fb37d819b0a4dc",
      "0x976ea74026e726554db657fa54763abd0c3a0aa9",
      "0x14dc79964da2c08b23698b3d3cc7ca32193d9955",
      "0x23618e81e3f5cdf7f54c3d65f7fbc0abf5b21e8f",
      "0xa0ee7a142d267c1f36714e4a8f75612f20a79720">>

AnvilKeyLower ==
    <<"0xac0974bec39a17e36ba4a6b4d238ff944bacb478cbed5efcae784d7bf4f2ff80",
      "0x59c6995e998f97a5a0044966f0945389dc9e86dae88c7a8412f4603b6b78690d",
      "0x5de4111afa1a4b94908f83103eb1f1706367c2e68ca870fc3fb9a804cdab365a",
      "0x7c852118294e51e653712a81e05800f419141751be58f605c371e15141b007a6",
      "0x47e179ec197488593b187f80a00eb0da91f1b9d0b13f8733639f19c30a34926a",
      "0x8b3a350cf5c34c9194ca85829a2df0ec3153be0318b5e2d3348e872092edffba",
      "0x92db14e403b83dfe3df233f83dfa3a0d7096f21ca9b0d6d6b8d88b2b4ec1564e",
      "0x4bbbf85ce3377467afe5d46f804f221813b2bb87f24d81f60f1fcdbf7cbf4356",
      "0xdbda1821b80551c9d65939329250298aa3472ba22feea921c0cf5d620ea67b97",
      "0x2a871d0798f97d79848a013d4936a73bf4cc922c825d33c1cf7073dff6d409c6">>

\* Index i of the table is ANVIL_ACCOUNTS[i - 1]
ANVIL_ACCOUNTS ==
    [i \in 1..10 |-> [address |-> Text(42, AnvilAddressLower[i], "checksum"),
                      privateKey |-> Text(66, AnvilKeyLower[i], "lower")]]

DEFAULT_ANVIL_PRIVATE_KEY == ANVIL_ACCOUNTS[1].privateKey

mainnet == [id |-> 1, name |-> "Ethereum"]

arbitrum == [id |-> 42161, name |-> "Arbitrum One"]

optimism == [id |-> 10, name |-> "OP Mainnet"]

DEFAULT_CHAIN == mainnet

READ_METHODS ==
    {"eth_blockNumber", "eth_getBlockByHash", "eth_getBlockByNumber",
     "eth_getBlockTransactionCountByHash", "eth_getBlockTransactionCountByNumber",
     "eth_getUncleByBlockHashAndIndex", "eth_getUncleByBlockNumberAndIndex",
     "eth_getUncleCountByBlockHash", "eth_getUncleCountByBlockNumber",
     "eth_getTransactionByHash", "eth_getTransactionByBlockHashAndIndex",
     "eth_getTransactionByBlockNumberAndIndex", "eth_getTransactionReceipt",
     "eth_getTransactionCount", "eth_getBalance", "eth_getCode", "eth_getStorageAt",
     "eth_call", "eth_newFilter", "eth_newBlockFilter",
     "eth_newPendingTransactionFilter", "eth_uninstallFilter", "eth_getFilterChanges",
     "eth_getFilterLogs", "eth_getLogs", "eth_gasPrice", "eth_estimateGas",
     "eth_feeHistory", "eth_maxPriorityFeePerGas", "eth_chainId", "net_version",
     "net_listening", "net_peerCount", "web3_clientVersion", "eth_syncing",
     "eth_protocolVersion"}

WALLET_METHODS ==
    {"eth_accounts", "eth_chainId", "net_version", "eth_requestAccounts",
     "wallet_switchEthereumChain", "wallet_addEthereumChain",
     "wallet_requestPermissions", "wallet_getPermissions", "wallet_revokePermissions",
     "wallet_watchAsset", "wallet_scanQRCode", "wallet_registerOnboarding"}

WRITE_METHODS ==
    {"eth_sendTransaction", "eth_sendRawTransaction", "eth_signTransaction", "eth_sign",
     "personal_sign", "eth_signTypedData", "eth_signTypedData_v3", "eth_signTypedData_v4"}

isReadMethod(method) == method \in READ_METHODS

\* a mutant: only the methods with a handler case count as wallet methods
isWalletMethod_HandledOnly(method) ==
    method \in WALLET_METHODS \ {"wallet_revokePermissions", "wallet_watchAsset",
                                 "wallet_scanQRCode", "wallet_registerOnboarding"}

isWalletMethod(method) == method \in WALLET_METHODS

isWriteMethod(method) == method \in WRITE_METHODS

(***************************************************************************)
(* Values: errors, results, event payloads.  Every field is always         *)
(* present, so that two values of one kind can be compared.                *)
(***************************************************************************)
\* ProviderErrorCode.UserRejectedRequest (types.ts)
UserRejectedRequest == 4001

NoList == <<>>

\* message template, the method or text it names, the number and the list it prints
Msg(text, arg, n, list) == [text |-> text, arg |-> arg, n |-> n, list |-> list]

\* new Error(message), without a code property
Error(message) == [name |-> "Error", hasCode |-> FALSE, code |-> 0, message |-> message]

\* an error object that carries a numeric code
CodedError(name, code, message) ==
    [name |-> name, hasCode |-> TRUE, code |-> code, message |-> message]

ProviderRpcError(code, text) == CodedError("ProviderRpcError", code, Msg(text, "", 0, NoList))

TypeError(text) == [name |-> "TypeError", hasCode |-> FALSE, code |-> 0,
                    message |-> Msg(text, "", 0, NoList)]

NoError == [name |-> "", hasCode |-> FALSE, code |-> 0, message |-> Msg("", "", 0, NoList)]

\* what request / a control method hands back
Res(kind, accounts, chars) == [kind |-> kind, accounts |-> accounts, chars |-> chars]

Undefined == Res("undefined", <<>>, <<>>)

Null == Res("null", <<>>, <<>>)

\* the argument of one emit
Args(chainId, accounts, code, message) ==
    [chainId |-> chainId, accounts |-> accounts, code |-> code, message |-> message]

(***************************************************************************)
(* The event bus: listeners[event] is a JS Set, kept as the sequence of    *)
(* its members in insertion order.  A listener is identified by what it    *)
(* does when invoked.                                                      *)
(***************************************************************************)
EventNames == {"accountsChanged", "chainChanged", "connect", "disconnect", "message"}

\* recorder: returns; thrower: throws; reenter: calls request eth_requestAccounts
ListenerIds == {"recorder", "thrower", "reenter"}

NoListeners == [e \in EventNames |-> <<>>]

InSeq(x, s) == \E i \in 1..Len(s) : s[i] = x

RECURSIVE Without(_, _)
Without(s, x) == IF s = <<>> THEN <<>>
                 ELSE IF Head(s) = x THEN Without(Tail(s), x)
                 ELSE <<Head(s)>> \o Without(Tail(s), x)

\* Set.prototype.add
SetAdd(s, x) == IF InSeq(x, s) THEN s ELSE Append(s, x)

\* Set.prototype.delete
SetDelete(s, x) == Without(s, x)

Registered(ls) == Len(ls["accountsChanged"]) + Len(ls["chainChanged"]) + Len(ls["connect"])
                  + Len(ls["disconnect"]) + Len(ls["message"])

(***************************************************************************)
(* Construction: createE2EProvider(config).                                *)
(***************************************************************************)
\* viem's privateKeyToAccount: the account of a private key.  The address of
\* a table key is the table's address; any other key has its own address.
privateKeyToAccount(key) ==
    IF \E i \in 1..10 : ANVIL_ACCOUNTS[i].privateKey.lower = toLowerCase(key).lower
    THEN LET i == CHOOSE j \in 1..10 : ANVIL_ACCOUNTS[j].privateKey.lower = toLowerCase(key).lower
         IN [address |-> ANVIL_ACCOUNTS[i].address, type |-> "local", signer |-> key.lower]
    ELSE [address |-> Text(42, key.lower, "address-of-key"), type |-> "local",
          signer |-> key.lower]

\* viem's createWalletClient({account, chain, transport: http(url)})
createWalletClient(account, chain, url) == [account |-> account, chain |-> chain, transport |-> url]

\* a mutant: every chain is served by the default URL
getRpcUrl_DefaultOnly(rpcUrls, chainId) == DEFAULT_ANVIL_RPC_URL

\* getRpcUrl: rpcUrlsConfig[chainId] ?? DEFAULT_ANVIL_RPC_URL
getRpcUrl(rpcUrls, chainId) ==
    IF chainId \in DOMAIN rpcUrls THEN rpcUrls[chainId] ELSE DEFAULT_ANVIL_RPC_URL

\* chains of a configuration: "undefined" stands for an omitted option
ChainsUndefined == <<[id |-> 0, name |-> "undefined"]>>

\* (chainsConfig ?? [DEFAULT_CHAIN])
supportedChainsOf(chainsConfig) ==
    IF chainsConfig = ChainsUndefined THEN <<DEFAULT_CHAIN>> ELSE chainsConfig

\* supportedChains[0] ?? DEFAULT_CHAIN
initialChainOf(supportedChains) ==
    IF Len(supportedChains) >= 1 THEN supportedChains[1] ELSE DEFAULT_CHAIN

\* supportedChains.map((c) => c.id)
chainIdsOf(supportedChains) == [i \in 1..Len(supportedChains) |-> supportedChains[i].id]

EmptyMap == [c \in {} |-> ""]

\* The configurations the model constructs a provider from
Configs ==
    { [chains |-> ChainsUndefined, rpcUrls |-> (1 :> "http://localhost:8545")],
      [chains |-> <<>>, rpcUrls |-> EmptyMap],
      [chains |-> <<arbitrum, mainnet>>,
       rpcUrls |-> (42161 :> "http://arbitrum-anvil:8546")] }

initialInternal(config) ==
    LET supportedChains == supportedChainsOf(config.chains)
        initialChain == initialChainOf(supportedChains)
        initialRpcUrl == getRpcUrl(config.rpcUrls, initialChain.id)
        initialAccount == privateKeyToAccount(DEFAULT_ANVIL_PRIVATE_KEY)
    IN [account |-> initialAccount,
        walletClient |-> createWalletClient(initialAccount, initialChain, initialRpcUrl),
        chains |-> supportedChains,
        currentChain |-> initialChain,
        rpcUrl |-> initialRpcUrl,
        rpcUrls |-> config.rpcUrls,
        rejectSignature |-> FALSE,
        rejectTransaction |-> FALSE]

initialState(config) ==
    LET supportedChains == supportedChainsOf(config.chains)
        initialChain == initialChainOf(supportedChains)
    IN [accounts |-> <<privateKeyToAccount(DEFAULT_ANVIL_PRIVATE_KEY).address>>,
        chainId |-> initialChain.id,
        isConnected |-> FALSE,
        supportedChainIds |-> chainIdsOf(supportedChains)]

(***************************************************************************)
(* The machine: the provider's closure variables (internal, state,         *)
(* requestId, listeners), the backend calls in flight, and what the call   *)
(* being executed has done so far: the listeners it invoked, the backend   *)
(* calls it issued, and how it ended.  depth counts the listeners on the   *)
(* call stack: 0 in the caller's own call, 1 in a request a listener makes.*)
(***************************************************************************)
Cur == [internal |-> internal, state |-> state, requestId |-> requestId,
        listeners |-> listeners, pending |-> pending, connectEmits |-> connectEmits,
        emitted |-> <<>>, invoked |-> <<>>, issued |-> <<>>, depth |-> 0,
        thrown |-> FALSE, awaiting |-> FALSE, error |-> NoError, result |-> Undefined]

Throw(m, err) == [m EXCEPT !.thrown = TRUE, !.error = err]

Return(m, res) == [m EXCEPT !.result = res]

\* what a listener, or a caller, can read off the provider at one moment
Seen(m) == [accounts |-> m.state.accounts,
            signer |-> m.internal.account.address,
            clientSigner |-> m.internal.walletClient.account.address,
            chainId |-> m.state.chainId,
            clientChainId |-> m.internal.walletClient.chain.id,
            isConnected |-> m.state.isConnected]

\* request parameters: params itself may be missing; chainId is the string of
\* wallet_switchEthereumChain, tx the pricing fields present in the transaction
\* of eth_sendTransaction, typed the shape of the typed-data argument
Params(present, chainId, tx, typed) ==
    [present |-> present, chainId |-> chainId, tx |-> tx, typed |-> typed]

NoTx == [gasPrice |-> FALSE, maxFeePerGas |-> FALSE, maxPriorityFeePerGas |-> FALSE]

NoParams == Params(FALSE, <<>>, NoTx, "none")

NoClient == [account |-> [address |-> Text(0, "", ""), type |-> "", signer |-> ""],
             chain |-> [id |-> 0, name |-> ""], transport |-> ""]

\* one call to the backend: fetch(url, envelope) or a wallet-client operation
Call(api, req, url, client, method, pricing, params) ==
    [api |-> api, req |-> req, url |-> url, client |-> client, method |-> method,
     pricing |-> pricing, params |-> params]

\* a mutant: the handler awaits a call that was never made
Await_NothingSent(m, call) == [m EXCEPT !.issued = Append(@, call), !.awaiting = TRUE]

\* the call is made and the handler awaits it
Await(m, call) == [m EXCEPT !.pending = @ \cup {call}, !.issued = Append(@, call),
                            !.awaiting = TRUE]

ListenerError == [name |-> "ListenerError", hasCode |-> FALSE, code |-> 0,
                  message |-> Msg("listener threw", "", 0, NoList)]

Saturate(n) == IF n < MaxConnectEmits THEN n + 1 ELSE MaxConnectEmits

RECURSIVE emitFrom(_, _, _, _)
RECURSIVE handleWalletMethod(_, _, _)
RECURSIVE request(_, _, _)

\* One listener call, listener(...args).  A promise the listener drops
\* cannot throw into the emitter.
invokeListener(m, listener, event, args) ==
    LET m1 == [m EXCEPT !.invoked = Append(@, [listener |-> listener, event |-> event,
                                               args |-> args, depth |-> m.depth])]
    IN CASE listener = "thrower" -> Throw(m1, ListenerError)
         [] listener = "reenter" ->
                LET m2 == request([m1 EXCEPT !.depth = @ + 1], "eth_requestAccounts", NoParams)
                IN [m2 EXCEPT !.thrown = FALSE, !.awaiting = FALSE, !.error = NoError,
                              !.result = m1.result, !.depth = m1.depth]
         [] OTHER -> m1

\* listeners[event].forEach((listener) => listener(...args)), from the members in ls on
emitFrom(m, event, args, ls) ==
    IF ls = <<>> THEN m
    ELSE LET m1 == invokeListener(m, Head(ls), event, args)
         IN IF m1.thrown THEN m1 ELSE emitFrom(m1, event, args, Tail(ls))

\* emit(event, ...args).  The machine notes the emission and what the provider
\* shows at that moment, whether or not a listener is registered.
emit(m, event, args) ==
    LET m0 == [m EXCEPT !.emitted = Append(@, [event |-> event, args |-> args, seen |-> Seen(m),
                                               depth |-> m.depth]),
                        !.connectEmits = IF event = "connect" THEN Saturate(@) ELSE @]
    IN emitFrom(m0, event, args, m0.listeners[event])

\* sendJsonRpc: the envelope carries id: requestId and goes to internal.rpcUrl
\* a mutant: the envelope is sent without the caller's params
sendJsonRpc_DropsParams(m, method, params) ==
    Await(m, Call("fetch", m.requestId, m.internal.rpcUrl, NoClient, method, NoTx, NoParams))

sendJsonRpc(m, method, params) ==
    Await(m, Call("fetch", m.requestId, m.internal.rpcUrl, NoClient, method, NoTx, params))

\* a mutant: a read is refused while transactions are rejected
handleReadMethod_HonoursFlag(m, method, params) ==
    IF m.internal.rejectTransaction
    THEN Throw(m, CodedError("ProviderRpcError", 4001,
                             Msg("User rejected the transaction request.", "", 0, NoList)))
    ELSE sendJsonRpc(m, method, params)

handleReadMethod(m, method, params) == sendJsonRpc(m, method, params)

signingMethods ==
    {"personal_sign", "eth_sign", "eth_signTypedData", "eth_signTypedData_v3",
     "eth_signTypedData_v4"}

\* a mutant: every pricing field the caller gave is handed on
txPricing_PassThrough(tx) == tx

\* The gas-pricing fields of txRequest: maxFeePerGas decides first, then gasPrice
txPricing(tx) ==
    IF tx.maxFeePerGas
    THEN [gasPrice |-> FALSE, maxFeePerGas |-> TRUE,
          maxPriorityFeePerGas |-> tx.maxPriorityFeePerGas]
    ELSE IF tx.gasPrice THEN [gasPrice |-> TRUE, maxFeePerGas |-> FALSE,
                              maxPriorityFeePerGas |-> FALSE]
    ELSE NoTx

\* a wallet-client operation, made on internal.walletClient
walletClientCall(m, api, method, pricing) ==
    Await(m, Call(api, m.requestId, "", m.internal.walletClient, method, pricing, NoParams))

\* JSON.parse of a string that is not JSON
SyntaxError == [name |-> "SyntaxError", hasCode |-> FALSE, code |-> 0,
                message |-> Msg("Unexpected token", "", 0, NoList)]

\* the switch (method) of handleWriteMethod
writeSwitch(m, method, params) ==
    CASE method = "eth_sendTransaction" ->
             IF ~params.present
             THEN Throw(m, TypeError("Cannot read properties of undefined"))
             ELSE walletClientCall(m, "sendTransaction", method, txPricing(params.tx))
      [] method \in {"personal_sign", "eth_sign"} ->
             walletClientCall(m, "signMessage", method, NoTx)
      [] method \in {"eth_signTypedData", "eth_signTypedData_v3", "eth_signTypedData_v4"} ->
             IF ~params.present \/ params.typed = "none"
             THEN Throw(m, TypeError("Cannot read properties of undefined"))
             ELSE IF params.typed = "badjson" THEN Throw(m, SyntaxError)
             ELSE walletClientCall(m, "signTypedData", method, NoTx)
      [] method = "eth_sendRawTransaction" -> sendJsonRpc(m, method, params)
      [] OTHER -> Throw(m, Error(Msg("Unsupported write method: ${method}", method, 0, NoList)))

\* a mutant: the signature flag is checked for the raw-message methods only
handleWriteMethod_RawSignOnly(m, method, params) ==
    IF method = "eth_sendTransaction" /\ m.internal.rejectTransaction
    THEN Throw(m, ProviderRpcError(UserRejectedRequest, "User rejected the transaction request."))
    ELSE IF method \in {"personal_sign", "eth_sign"} /\ m.internal.rejectSignature
    THEN Throw(m, ProviderRpcError(UserRejectedRequest, "User rejected the signature request."))
    ELSE writeSwitch(m, method, params)

\* a mutant: the transaction flag rejects every write method
handleWriteMethod_RejectAllWrites(m, method, params) ==
    IF m.internal.rejectTransaction
    THEN Throw(m, ProviderRpcError(UserRejectedRequest, "User rejected the transaction request."))
    ELSE IF method \in signingMethods /\ m.internal.rejectSignature
    THEN Throw(m, ProviderRpcError(UserRejectedRequest, "User rejected the signature request."))
    ELSE writeSwitch(m, method, params)

handleWriteMethod(m, method, params) ==
    IF method = "eth_sendTransaction" /\ m.internal.rejectTransaction
    THEN Throw(m, ProviderRpcError(UserRejectedRequest, "User rejected the transaction request."))
    ELSE IF method \in signingMethods /\ m.internal.rejectSignature
    THEN Throw(m, ProviderRpcError(UserRejectedRequest, "User rejected the signature request."))
    ELSE writeSwitch(m, method, params)

\* Array.prototype.find over internal.chains: the index of the first chain
\* with that id, 0 when there is none
findChain(chains, chainId) ==
    IF \E i \in 1..Len(chains) : chains[i].id = chainId
    THEN CHOOSE i \in 1..Len(chains) :
             chains[i].id = chainId /\ \A j \in 1..(i - 1) : chains[j].id # chainId
    ELSE 0

\* state.supportedChainIds.includes(chainId)
includes(ids, chainId) == \E i \in 1..Len(ids) : ids[i] = chainId

unsupportedChainMessage(m, chainId) ==
    Msg("Chain ${chainId} is not supported. Supported chains: ${supportedChainIds.join(', ')}",
        "", chainId, m.state.supportedChainIds)

ChainNotAdded == 4902

handleWalletMethod(m, method, params) ==
    CASE method = "eth_accounts" -> Return(m, Res("accounts", m.state.accounts, <<>>))
      [] method = "eth_chainId" -> Return(m, Res("string", <<>>, Hex0x(m.state.chainId)))
      [] method = "net_version" -> Return(m, Res("string", <<>>, toString10(m.state.chainId)))
      [] method = "eth_requestAccounts" ->
             IF ~m.state.isConnected
             THEN LET m1 == [m EXCEPT !.state.isConnected = TRUE]
                      m2 == emit(m1, "connect", Args(Hex0x(m1.state.chainId), <<>>, 0, ""))
                  IN IF m2.thrown THEN m2
                     ELSE Return(m2, Res("accounts", m2.state.accounts, <<>>))
             ELSE Return(m, Res("accounts", m.state.accounts, <<>>))
      [] method = "wallet_switchEthereumChain" ->
             IF ~params.present
             THEN Throw(m, TypeError("undefined is not iterable"))
             ELSE LET chainId == params.chainId
                      newChainId == parseInt16(chainId)
                      found == findChain(m.internal.chains, newChainId)
                  IN IF ~includes(m.state.supportedChainIds, newChainId)
                     THEN Throw(m, CodedError("Error", ChainNotAdded,
                                              unsupportedChainMessage(m, newChainId)))
                     ELSE LET newChain == m.internal.chains[found]
                              newRpcUrl == getRpcUrl(m.internal.rpcUrls, newChainId)
                              m1 == IF found # 0
                                    THEN [m EXCEPT !.internal.currentChain = newChain,
                                                   !.internal.rpcUrl = newRpcUrl,
                                                   !.internal.walletClient =
                                                       createWalletClient(m.internal.account,
                                                                          newChain, newRpcUrl)]
                                    ELSE m
                              m2 == [m1 EXCEPT !.state.chainId = newChainId]
                              m3 == emit(m2, "chainChanged", Args(chainId, <<>>, 0, ""))
                          IN IF m3.thrown THEN m3 ELSE Return(m3, Null)
      [] method = "wallet_addEthereumChain" -> Return(m, Null)
      [] method \in {"wallet_requestPermissions", "wallet_getPermissions"} ->
             Return(m, Res("permissions", <<>>, <<>>))
      [] OTHER -> Throw(m, Error(Msg("Unsupported wallet method: ${method}", method, 0, NoList)))

\* a mutant: a chain that is added becomes a supported chain
request_AddChainSupports(m, method, params) ==
    LET m1 == [m EXCEPT !.requestId = @ + 1]
    IN IF method = "wallet_addEthereumChain" /\ params.present
       THEN Return([m1 EXCEPT !.state.supportedChainIds = Append(@, parseInt16(params.chainId))],
                   Null)
       ELSE IF isWalletMethod(method) THEN handleWalletMethod(m1, method, params)
       ELSE IF isWriteMethod(method) THEN handleWriteMethod(m1, method, params)
       ELSE IF isReadMethod(method) THEN handleReadMethod(m1, method, params)
       ELSE sendJsonRpc(m1, method, params)

\* a mutant: wallet_addEthereumChain is passed on to the RPC endpoint
request_ForwardAddChain(m, method, params) ==
    LET m1 == [m EXCEPT !.requestId = @ + 1]
    IN IF method = "wallet_addEthereumChain" THEN sendJsonRpc(m1, method, params)
       ELSE IF isWalletMethod(method) THEN handleWalletMethod(m1, method, params)
       ELSE IF isWriteMethod(method) THEN handleWriteMethod(m1, method, params)
       ELSE IF isReadMethod(method) THEN handleReadMethod(m1, method, params)
       ELSE sendJsonRpc(m1, method, params)

\* a mutant: the read list is consulted before the wallet list
request_ReadFirst(m, method, params) ==
    LET m1 == [m EXCEPT !.requestId = @ + 1]
    IN IF isReadMethod(method) THEN handleReadMethod(m1, method, params)
       ELSE IF isWalletMethod(method) THEN handleWalletMethod(m1, method, params)
       ELSE IF isWriteMethod(method) THEN handleWriteMethod(m1, method, params)
       ELSE sendJsonRpc(m1, method, params)

\* a mutant: the request counter is left alone
request_NoCount(m, method, params) ==
    IF isWalletMethod(method) THEN handleWalletMethod(m, method, params)
    ELSE IF isWriteMethod(method) THEN handleWriteMethod(m, method, params)
    ELSE IF isReadMethod(method) THEN handleReadMethod(m, method, params)
    ELSE sendJsonRpc(m, method, params)

\* request({method, params}): requestId++, then the first class that holds
\* the method; anything else goes to the RPC endpoint
request(m, method, params) ==
    LET m1 == [m EXCEPT !.requestId = @ + 1]
    IN IF isWalletMethod(method) THEN handleWalletMethod(m1, method, params)
       ELSE IF isWriteMethod(method) THEN handleWriteMethod(m1, method, params)
       ELSE IF isReadMethod(method) THEN handleReadMethod(m1, method, params)
       ELSE sendJsonRpc(m1, method, params)

on(m, event, listener) ==
    IF event \notin EventNames
    THEN Throw(m, TypeError("Cannot read properties of undefined (reading 'add')"))
    ELSE [m EXCEPT !.listeners[event] = SetAdd(@, listener)]

removeListener(m, event, listener) ==
    IF event \notin EventNames
    THEN Throw(m, TypeError("Cannot read properties of undefined (reading 'delete')"))
    ELSE [m EXCEPT !.listeners[event] = SetDelete(@, listener)]

(***************************************************************************)
(* The control surface.                                                    *)
(***************************************************************************)
\* the argument of setSigningAccount: a number (in tenths, so that 15 is 1.5),
\* a string, or an object that may have an address
NoAccount == [address |-> Text(0, "", ""), type |-> "", signer |-> ""]

NumberInput(tenths) == [type |-> "number", tenths |-> tenths, text |-> Text(0, "", ""),
                        hasAddress |-> FALSE, account |-> NoAccount]

StringInput(text) == [type |-> "string", tenths |-> 0, text |-> text,
                      hasAddress |-> FALSE, account |-> NoAccount]

ObjectInput(hasAddress, account) == [type |-> "object", tenths |-> 0, text |-> Text(0, "", ""),
                                     hasAddress |-> hasAddress, account |-> account]

isAccount(input) == input.type = "object" /\ input.hasAddress

Resolved(account) == [thrown |-> FALSE, error |-> NoError, account |-> account]

Rejected(err) == [thrown |-> TRUE, error |-> err, account |-> NoAccount]

\* viem rejects a private key that is not 32 bytes of hex
keyToAccount(key) ==
    IF key.spelled = "nothex"
    THEN Rejected([name |-> "InvalidPrivateKeyError", hasCode |-> FALSE, code |-> 0,
                   message |-> Msg("invalid private key", key.lower, 0, NoList)])
    ELSE Resolved(privateKeyToAccount(key))

\* a mutant: an address is looked up in the table as it is spelled
resolveAccount_ExactAddress(input) ==
    IF isAccount(input) THEN Resolved(input.account)
    ELSE IF input.type = "number"
    THEN IF input.tenths < 0 \/ input.tenths > 90 \/ input.tenths % 10 # 0
         THEN Rejected(Error(Msg("Invalid Anvil account index: ${input}. Must be 0-9.",
                                 "", input.tenths, NoList)))
         ELSE keyToAccount(ANVIL_ACCOUNTS[(input.tenths \div 10) + 1].privateKey)
    ELSE IF input.text.length = 66 THEN keyToAccount(input.text)
    ELSE IF input.text.length = 42
    THEN IF \E i \in 1..10 : ANVIL_ACCOUNTS[i].address = input.text
         THEN LET i == CHOOSE j \in 1..10 : ANVIL_ACCOUNTS[j].address = input.text
              IN keyToAccount(ANVIL_ACCOUNTS[i].privateKey)
         ELSE Rejected(Error(Msg("Address ${inputStr} is not a default Anvil account.",
                                 input.text.lower, 0, NoList)))
    ELSE Rejected(Error(Msg("Invalid input: expected index (0-9), address (42 chars), private key (66 chars), or Account object.",
                            "", 0, NoList)))

\* a mutant: a number is only tested against the bounds 0 and 9
resolveAccount_NoIntegerCheck(input) ==
    IF isAccount(input) THEN Resolved(input.account)
    ELSE IF input.type = "number"
    THEN IF input.tenths < 0 \/ input.tenths > 90
         THEN Rejected(Error(Msg("Invalid Anvil account index: ${input}. Must be 0-9.",
                                 "", input.tenths, NoList)))
         ELSE keyToAccount(ANVIL_ACCOUNTS[(input.tenths \div 10) + 1].privateKey)
    ELSE Rejected(Error(Msg("Invalid input: expected index (0-9), address (42 chars), private key (66 chars), or Account object.",
                            "", 0, NoList)))

resolveAccount(input) ==
    IF isAccount(input) THEN Resolved(input.account)
    ELSE IF input.type = "number"
    THEN IF input.tenths < 0 \/ input.tenths > 90 \/ input.tenths % 10 # 0
         THEN Rejected(Error(Msg("Invalid Anvil account index: ${input}. Must be 0-9.",
                                 "", input.tenths, NoList)))
         ELSE keyToAccount(ANVIL_ACCOUNTS[(input.tenths \div 10) + 1].privateKey)
    ELSE IF input.text.length = 66 THEN keyToAccount(input.text)
    ELSE IF input.text.length = 42
    THEN IF \E i \in 1..10 : toLowerCase(ANVIL_ACCOUNTS[i].address) = toLowerCase(input.text)
         THEN LET i == CHOOSE j \in 1..10 :
                           /\ toLowerCase(ANVIL_ACCOUNTS[j].address) = toLowerCase(input.text)
                           /\ \A k \in 1..(j - 1) :
                                  toLowerCase(ANVIL_ACCOUNTS[k].address) # toLowerCase(input.text)
              IN keyToAccount(ANVIL_ACCOUNTS[i].privateKey)
         ELSE Rejected(Error(Msg("Address ${inputStr} is not a default Anvil account.",
                                 input.text.lower, 0, NoList)))
    ELSE Rejected(Error(Msg("Invalid input: expected index (0-9), address (42 chars), private key (66 chars), or Account object.",
                            "", 0, NoList)))

\* a mutant: the calls in flight are signed by the new identity
updateSigningAccount_RebindsPending(m, newAccount) ==
    LET newClient == createWalletClient(newAccount, m.internal.currentChain, m.internal.rpcUrl)
    IN [m EXCEPT !.internal.account = newAccount,
                 !.internal.walletClient = newClient,
                 !.state.accounts = <<newAccount.address>>,
                 !.pending = {IF call.api = "fetch" THEN call ELSE [call EXCEPT !.client = newClient] :
                                  call \in @}]

\* a mutant: the account switch builds the client for the default chain
updateSigningAccount_DefaultChain(m, newAccount) ==
    [m EXCEPT !.internal.account = newAccount,
              !.internal.walletClient =
                  createWalletClient(newAccount, DEFAULT_CHAIN, m.internal.rpcUrl),
              !.state.accounts = <<newAccount.address>>]

\* a mutant: the identity changes and accounts is left behind
updateSigningAccount_KeepAccounts(m, newAccount) ==
    [m EXCEPT !.internal.account = newAccount,
              !.internal.walletClient =
                  createWalletClient(newAccount, m.internal.currentChain, m.internal.rpcUrl)]

updateSigningAccount(m, newAccount) ==
    [m EXCEPT !.internal.account = newAccount,
              !.internal.walletClient =
                  createWalletClient(newAccount, m.internal.currentChain, m.internal.rpcUrl),
              !.state.accounts = <<newAccount.address>>]

\* a mutant: the calls in flight follow the switch to the new URL
updateChain_RedirectsPending(m, newChain) ==
    LET newRpcUrl == getRpcUrl(m.internal.rpcUrls, newChain.id)
    IN [m EXCEPT !.internal.currentChain = newChain,
                 !.internal.rpcUrl = newRpcUrl,
                 !.internal.walletClient =
                     createWalletClient(m.internal.account, newChain, newRpcUrl),
                 !.state.chainId = newChain.id,
                 !.pending = {[call EXCEPT !.url = newRpcUrl] : call \in @}]

\* a mutant: the wallet client is not rebuilt for the new chain
updateChain_KeepClient(m, newChain) ==
    LET newRpcUrl == getRpcUrl(m.internal.rpcUrls, newChain.id)
    IN [m EXCEPT !.internal.currentChain = newChain,
                 !.internal.rpcUrl = newRpcUrl,
                 !.state.chainId = newChain.id]

updateChain(m, newChain) ==
    LET newRpcUrl == getRpcUrl(m.internal.rpcUrls, newChain.id)
    IN [m EXCEPT !.internal.currentChain = newChain,
                 !.internal.rpcUrl = newRpcUrl,
                 !.internal.walletClient =
                     createWalletClient(m.internal.account, newChain, newRpcUrl),
                 !.state.chainId = newChain.id]

\* a mutant: the switch announces the chain as well
setSigningAccount_AlsoChainChanged(m, input) ==
    LET r == resolveAccount(input)
    IN IF r.thrown THEN Throw(m, r.error)
       ELSE LET m1 == emit(updateSigningAccount(m, r.account), "accountsChanged",
                           Args(<<>>, <<r.account.address>>, 0, ""))
            IN IF m1.thrown THEN m1
               ELSE emit(m1, "chainChanged", Args(Hex0x(m1.state.chainId), <<>>, 0, ""))

\* a mutant: the event goes out before the account is switched
setSigningAccount_EmitFirst(m, input) ==
    LET r == resolveAccount(input)
    IN IF r.thrown THEN Throw(m, r.error)
       ELSE LET m1 == emit(m, "accountsChanged", Args(<<>>, <<r.account.address>>, 0, ""))
            IN IF m1.thrown THEN m1 ELSE updateSigningAccount(m1, r.account)

setSigningAccount(m, input) ==
    LET r == resolveAccount(input)
    IN IF r.thrown THEN Throw(m, r.error)
       ELSE emit(updateSigningAccount(m, r.account), "accountsChanged",
                 Args(<<>>, <<r.account.address>>, 0, ""))

\* a mutant: one switch drives both flags
setRejectSignature_BothFlags(m, reject) ==
    [m EXCEPT !.internal.rejectSignature = reject, !.internal.rejectTransaction = reject]

setRejectSignature(m, reject) == [m EXCEPT !.internal.rejectSignature = reject]

setRejectTransaction(m, reject) == [m EXCEPT !.internal.rejectTransaction = reject]

\* a mutant: a switch to the chain that is active already is a no-op
setChain_SkipsActiveChain(m, chainId) ==
    IF ~includes(m.state.supportedChainIds, chainId)
    THEN Throw(m, Error(unsupportedChainMessage(m, chainId)))
    ELSE IF chainId = m.state.chainId THEN m
    ELSE LET found == findChain(m.internal.chains, chainId)
         IN IF found = 0
            THEN Throw(m, Error(Msg("Chain config not found for chain ID ${chainId}", "",
                                    chainId, NoList)))
            ELSE emit(updateChain(m, m.internal.chains[found]), "chainChanged",
                      Args(Hex0x(chainId), <<>>, 0, ""))

\* a mutant: chainId is assigned before the chain is validated
setChain_AssignThenValidate(m, chainId) ==
    IF ~includes(m.state.supportedChainIds, chainId)
    THEN Throw([m EXCEPT !.state.chainId = chainId], Error(unsupportedChainMessage(m, chainId)))
    ELSE LET found == findChain(m.internal.chains, chainId)
         IN IF found = 0
            THEN Throw(m, Error(Msg("Chain config not found for chain ID ${chainId}", "",
                                    chainId, NoList)))
            ELSE emit(updateChain(m, m.internal.chains[found]), "chainChanged",
                      Args(Hex0x(chainId), <<>>, 0, ""))

setChain(m, chainId) ==
    IF ~includes(m.state.supportedChainIds, chainId)
    THEN Throw(m, Error(unsupportedChainMessage(m, chainId)))
    ELSE LET found == findChain(m.internal.chains, chainId)
         IN IF found = 0
            THEN Throw(m, Error(Msg("Chain config not found for chain ID ${chainId}", "",
                                    chainId, NoList)))
            ELSE emit(updateChain(m, m.internal.chains[found]), "chainChanged",
                      Args(Hex0x(chainId), <<>>, 0, ""))

\* a mutant: disconnect drops the registered listeners after the event
disconnect_ClearsListeners(m) ==
    [emit(m, "disconnect", Args(<<>>, <<>>, 4900, "Disconnected")) EXCEPT !.listeners = NoListeners]

\* a mutant: disconnect resets isConnected
disconnect_ResetsConnection(m) ==
    emit([m EXCEPT !.state.isConnected = FALSE], "disconnect",
         Args(<<>>, <<>>, 4900, "Disconnected"))

disconnect(m) == emit(m, "disconnect", Args(<<>>, <<>>, 4900, "Disconnected"))

(***************************************************************************)
(* The backend: what a call in flight can come back with.                  *)
(***************************************************************************)
Outcome(kind, code, message, result) ==
    [kind |-> kind, code |-> code, message |-> message, result |-> result]

\* a JSON-RPC response with a result, one with an error object, and a call
\* that fails (connection refused, a signing failure)
BackendOutcomes ==
    { Outcome("result", 0, "", <<"0", "x", "1">>),
      Outcome("result", 0, "", <<>>),
      Outcome("rpcError", -32600, "Invalid Request", <<>>),
      Outcome("failure", 0, "fetch failed", <<>>) }

\* a mutant: every failure is reported as an internal JSON-RPC error
settle_SynthesizesCode(call, outcome) ==
    IF outcome.kind = "result"
    THEN [thrown |-> FALSE, error |-> NoError, result |-> Res("backend", <<>>, outcome.result)]
    ELSE [thrown |-> TRUE,
          error |-> CodedError("Error", -32603, Msg(outcome.message, "", 0, NoList)),
          result |-> Undefined]

\* The rest of sendJsonRpc / handleWriteMethod after the await: how the
\* request's promise settles
settle(call, outcome) ==
    CASE outcome.kind = "result" ->
             [thrown |-> FALSE, error |-> NoError, result |-> Res("backend", <<>>, outcome.result)]
      [] outcome.kind = "rpcError" /\ call.api = "fetch" ->
             [thrown |-> TRUE,
              error |-> CodedError("Error", outcome.code, Msg(outcome.message, "", 0, NoList)),
              result |-> Undefined]
      [] OTHER ->
             [thrown |-> TRUE,
              error |-> [name |-> "BackendError", hasCode |-> FALSE, code |-> 0,
                         message |-> Msg(outcome.message, "", 0, NoList)],
              result |-> Undefined]

(***************************************************************************)
(* Inputs.                                                                 *)
(***************************************************************************)
\* a method of every class, the unhandled ones, two reads and an unknown one
RequestMethods ==
    WALLET_METHODS \cup WRITE_METHODS \cup {"eth_getBalance", "eth_blockNumber", "anvil_mine"}

polygonId == 137

ChainIdInputs == {mainnet.id, optimism.id, arbitrum.id, polygonId}

\* spellings of the chainId parameter of wallet_switchEthereumChain
ChainIdStrings ==
    {Hex0x(c) : c \in ChainIdInputs}
        \cup {<<"0", "x", "A", "4", "B", "1">>, <<"0", "x", "0", "1">>, <<"z", "z">>}

\* every combination of the pricing fields being present in the transaction
TxInputs == [gasPrice : BOOLEAN, maxFeePerGas : BOOLEAN, maxPriorityFeePerGas : BOOLEAN]

ParamsFor(method) ==
    CASE method = "wallet_switchEthereumChain" ->
             {NoParams} \cup {Params(TRUE, c, NoTx, "none") : c \in ChainIdStrings}
      [] method = "eth_sendTransaction" ->
             {NoParams} \cup {Params(TRUE, <<>>, tx, "none") : tx \in TxInputs}
      [] method = "wallet_addEthereumChain" ->
             {NoParams} \cup {Params(TRUE, Hex0x(c), NoTx, "none") : c \in {mainnet.id, polygonId}}
      [] method = "eth_sendRawTransaction" ->
             {NoParams, Params(TRUE, <<>>, NoTx, "none")}
      [] method \in {"eth_signTypedData", "eth_signTypedData_v3", "eth_signTypedData_v4"} ->
             {Params(TRUE, <<>>, NoTx, t) : t \in {"object", "json", "badjson"}}
      [] OTHER -> {Params(TRUE, <<>>, NoTx, "none")}

customKey == Text(66, "0x1111111111111111111111111111111111111111111111111111111111111111", "lower")

impersonated == [address |-> Text(42, "0xd8da6bf26964af9d7eed9e03e53415d37aa96045", "checksum"),
                 type |-> "json-rpc", signer |-> "impersonated"]

SigningInputs ==
    {NumberInput(t) : t \in {-10, 0, 15, 90, 100}}
        \cup {StringInput(Text(42, AnvilAddressLower[10], "upper")),
              StringInput(Text(42, "0x000000000000000000000000000000000000dead", "lower")),
              StringInput(customKey),
              StringInput(Text(66, "not a key", "nothex")),
              StringInput(Text(5, "hello", "lower")),
              ObjectInput(TRUE, impersonated),
              ObjectInput(FALSE, NoAccount)}

\* the events the provider emits, and a name outside the fixed set
OnEvents == {"accountsChanged", "chainChanged", "connect", "disconnect", "foo"}

(***************************************************************************)
(* The state machine.                                                      *)
(***************************************************************************)
NoCall == Call("", 0, "", NoClient, "", NoTx, NoParams)

\* The call being observed: the operation, the name of its method, event or
\* parameter, its argument, and what it did and handed back
Last(op, arg, input, m) ==
    [op |-> op, arg |-> arg, input |-> input,
     status |-> IF m.thrown THEN "error" ELSE IF m.awaiting THEN "pending" ELSE "ok",
     result |-> m.result, error |-> m.error, emitted |-> m.emitted, invoked |-> m.invoked,
     issued |-> m.issued,
     req |-> m.requestId, settled |-> NoCall]

\* no call is being observed
NoLast == [op |-> "none", arg |-> "", input |-> "", status |-> "ok", result |-> Undefined, error |-> NoError,
           emitted |-> <<>>, invoked |-> <<>>, issued |-> <<>>, req |-> 0, settled |-> NoCall]

Install(m) ==
    /\ m.requestId <= MaxRequestId
    /\ internal' = m.internal
    /\ state' = m.state
    /\ requestId' = m.requestId
    /\ listeners' = m.listeners
    /\ pending' = m.pending
    /\ connectEmits' = m.connectEmits

Init ==
    /\ \E config \in Configs :
           /\ internal = initialInternal(config)
           /\ state = initialState(config)
    /\ requestId = 0
    /\ listeners = NoListeners
    /\ pending = {}
    /\ connectEmits = 0
    /\ last = Last("create", "", "", Cur)

Request(method, params) ==
    /\ LET m == request(Cur, method, params)
       IN /\ Install(m)
          /\ last' = [Last("request", method, params, m) EXCEPT !.req = requestId + 1]

\* a mutant: the outcome goes to the request that has waited longest
BackendReturn_ToOldest(call, outcome) ==
    LET oldest == CHOOSE first \in pending : \A other \in pending : first.req <= other.req
        r == settle(call, outcome)
    IN /\ call \in pending
       /\ pending' = pending \ {oldest}
       /\ last' = [op |-> "settle", arg |-> oldest.method, input |-> outcome,
                   status |-> IF r.thrown THEN "error" ELSE "ok",
                   result |-> r.result, error |-> r.error, emitted |-> <<>>, invoked |-> <<>>,
                   issued |-> <<>>, req |-> oldest.req, settled |-> call]
       /\ UNCHANGED <<internal, state, requestId, listeners, connectEmits>>

BackendReturn(call, outcome) ==
    /\ call \in pending
    /\ pending' = pending \ {call}
    /\ LET r == settle(call, outcome)
       IN last' = [op |-> "settle", arg |-> call.method, input |-> outcome,
                   status |-> IF r.thrown THEN "error" ELSE "ok",
                   result |-> r.result, error |-> r.error, emitted |-> <<>>, invoked |-> <<>>,
                   issued |-> <<>>, req |-> call.req, settled |-> call]
    /\ UNCHANGED <<internal, state, requestId, listeners, connectEmits>>

On(event, listener) ==
    LET m == on(Cur, event, listener)
    IN /\ Registered(m.listeners) <= MaxListeners
       /\ Install(m)
       /\ last' = Last("on", event, listener, m)

RemoveListener(event, listener) ==
    LET m == removeListener(Cur, event, listener)
    IN /\ Install(m)
       /\ last' = Last("removeListener", event, listener, m)

SetSigningAccount(input) ==
    LET m == setSigningAccount(Cur, input)
    IN Install(m) /\ last' = Last("setSigningAccount", input.type, input, m)

SetRejectSignature(reject) ==
    LET m == setRejectSignature(Cur, reject)
    IN Install(m) /\ last' = Last("setRejectSignature", "reject", reject, m)

SetRejectTransaction(reject) ==
    LET m == setRejectTransaction(Cur, reject)
    IN Install(m) /\ last' = Last("setRejectTransaction", "reject", reject, m)

SetChain(chainId) ==
    LET m == setChain(Cur, chainId)
    IN Install(m) /\ last' = Last("setChain", "chainId", chainId, m)

Disconnect ==
    LET m == disconnect(Cur)
    IN Install(m) /\ last' = Last("disconnect", "", "", m)

\* The caller takes the outcome of its call
Collect ==
    /\ last.op # "none"
    /\ last' = NoLast
    /\ UNCHANGED <<internal, state, requestId, listeners, pending, connectEmits>>

\* The harness of Spec makes one call at a time: it has taken the outcome of
\* the call before and awaited every request
Idle == pending = {} /\ last.op = "none"

Next ==
    \/ \E method \in RequestMethods : \E params \in ParamsFor(method) :
           Idle /\ Request(method, params)
    \/ \E call \in pending : \E outcome \in BackendOutcomes : BackendReturn(call, outcome)
    \/ \E event \in OnEvents : \E listener \in ListenerIds : Idle /\ On(event, listener)
    \/ \E event \in OnEvents : \E listener \in ListenerIds : Idle /\ RemoveListener(event, listener)
    \/ \E input \in SigningInputs : Idle /\ SetSigningAccount(input)
    \/ \E reject \in BOOLEAN : Idle /\ SetRejectSignature(reject)
    \/ \E reject \in BOOLEAN : Idle /\ SetRejectTransaction(reject)
    \/ \E chainId \in ChainIdInputs : Idle /\ SetChain(chainId)
    \/ Idle /\ Disconnect
    \/ Collect

Spec == Init /\ [][Next]_vars

(***************************************************************************)
(* A caller that does not await: requests and chain switches are made      *)
(* while earlier requests are still in flight.                             *)
(***************************************************************************)
InFlightMethods ==
    {"eth_getBalance", "eth_sendRawTransaction", "personal_sign", "eth_signTypedData_v4",
     "eth_sendTransaction", "wallet_switchEthereumChain"}

\* the caller has taken the outcome of its last call; requests may be in flight
Ready == last.op = "none"

NextInFlight ==
    \/ \E method \in InFlightMethods : \E params \in ParamsFor(method) :
           Ready /\ Request(method, params)
    \/ \E call \in pending : \E outcome \in BackendOutcomes : BackendReturn(call, outcome)
    \/ \E chainId \in ChainIdInputs : Ready /\ SetChain(chainId)
    \/ \E input \in {NumberInput(10)} : Ready /\ SetSigningAccount(input)
    \/ \E reject \in BOOLEAN : Ready /\ SetRejectSignature(reject)
    \/ \E reject \in BOOLEAN : Ready /\ SetRejectTransaction(reject)
    \/ Ready /\ Disconnect
    \/ Collect

SpecInFlight == Init /\ [][NextInFlight]_vars

(***************************************************************************)
(* The event bus under several listeners: listeners are registered and     *)
(* removed, and the operations that emit are called.                       *)
(***************************************************************************)
MaxBusListeners == 2

BusMethods == {"eth_requestAccounts", "wallet_switchEthereumChain"}

BusSigningInputs == {NumberInput(10)}

OnBus(event, listener) ==
    LET m == on(Cur, event, listener)
    IN /\ Registered(m.listeners) <= MaxBusListeners
       /\ Install(m)
       /\ last' = Last("on", event, listener, m)

NextEvents ==
    \/ \E event \in OnEvents : \E listener \in ListenerIds : Idle /\ OnBus(event, listener)
    \/ \E event \in OnEvents : \E listener \in ListenerIds : Idle /\ RemoveListener(event, listener)
    \/ \E method \in BusMethods : \E params \in ParamsFor(method) :
           Idle /\ Request(method, params)
    \/ \E input \in BusSigningInputs : Idle /\ SetSigningAccount(input)
    \/ \E chainId \in ChainIdInputs : Idle /\ SetChain(chainId)
    \/ Idle /\ Disconnect
    \/ Collect

SpecEvents == Init /\ [][NextEvents]_vars

(***************************************************************************)
(* Properties.                                                             *)
(***************************************************************************)
IsRequest(methods) == last.op = "request" /\ last.arg \in methods

\* the one fetch a forwarded request makes: its own id, the active chain's URL
Forwarded ==
    /\ last.status = "pending"
    /\ last.issued = <<Call("fetch", last.req, internal.rpcUrl, NoClient, last.arg, NoTx, last.input)>>
    /\ internal.rpcUrl = getRpcUrl(internal.rpcUrls, state.chainId)

\* the one wallet-client call a signing request or a transaction makes
Signed == /\ last.status = "pending"
          /\ Len(last.issued) = 1
          /\ last.issued[1].api \in {"sendTransaction", "signMessage", "signTypedData"}
          /\ last.issued[1].client = internal.walletClient

\* C1: request classifies a method as WalletState first, then Write, then
\* Read: a WalletState method is answered locally (eth_chainId and net_version
\* from state.chainId, although the read list names them too), a Write method
\* is signed, forwarded raw or refused, and any other method, known as a read
\* or not, is forwarded to the active chain's RPC URL and never signed.
C1_ClassificationOrder ==
    /\ IsRequest(WALLET_METHODS) => last.issued = <<>> /\ last.status # "pending"
    /\ IsRequest({"eth_chainId"}) =>
           last.status = "ok" /\ last.result = Res("string", <<>>, Hex0x(state.chainId))
    /\ IsRequest({"net_version"}) =>
           last.status = "ok" /\ last.result = Res("string", <<>>, toString10(state.chainId))
    /\ IsRequest(WRITE_METHODS \ WALLET_METHODS) =>
           \/ last.status = "error" /\ last.issued = <<>>
           \/ Signed
           \/ last.arg = "eth_sendRawTransaction" /\ Forwarded
    /\ IsRequest(RequestMethods \ (WALLET_METHODS \cup WRITE_METHODS)) => Forwarded

C1_Witness ==
    /\ IsRequest({"anvil_mine"})
    /\ Forwarded
    /\ Len(internal.chains) = 2
    /\ state.chainId # internal.chains[1].id

\* C2: while rejectSignature is set, each of the five signing methods is
\* refused with code 4001 and the signature message, and no backend call is made.
C2_RejectSignature ==
    (IsRequest(signingMethods) /\ internal.rejectSignature) =>
        /\ last.status = "error"
        /\ last.error = ProviderRpcError(4001, "User rejected the signature request.")
        /\ last.issued = <<>>
        /\ pending = {}

C2_Witness ==
    /\ IsRequest({"eth_signTypedData_v3"})
    /\ internal.rejectSignature
    /\ last.status = "error"

\* what a signing request does when no flag stops it
SignDispatch ==
    IF last.arg \in {"personal_sign", "eth_sign"}
    THEN Signed /\ last.issued[1].api = "signMessage"
    ELSE IF last.input.typed \in {"object", "json"}
    THEN Signed /\ last.issued[1].api = "signTypedData"
    ELSE last.status = "error" /\ last.issued = <<>> /\ ~last.error.hasCode

\* C3: while rejectTransaction is set and rejectSignature is not,
\* eth_sendTransaction is refused with code 4001 and the transaction message
\* without a backend call, and every signing method is dispatched to the wallet
\* client as it is when rejectTransaction is not set.
C3_RejectTransactionOnly ==
    /\ (IsRequest({"eth_sendTransaction"}) /\ internal.rejectTransaction) =>
           /\ last.status = "error"
           /\ last.error = ProviderRpcError(4001, "User rejected the transaction request.")
           /\ last.issued = <<>>
           /\ pending = {}
    /\ (IsRequest(signingMethods) /\ ~internal.rejectSignature) => SignDispatch

C3_Witness ==
    /\ IsRequest({"personal_sign"})
    /\ internal.rejectTransaction
    /\ ~internal.rejectSignature
    /\ Signed

\* the session state a caller can read off the provider
SessionOf(m) ==
    [accounts |-> m.state.accounts,
     account |-> m.internal.account,
     chainId |-> m.state.chainId,
     currentChain |-> m.internal.currentChain,
     rpcUrl |-> m.internal.rpcUrl,
     isConnected |-> m.state.isConnected,
     rejectSignature |-> m.internal.rejectSignature,
     rejectTransaction |-> m.internal.rejectTransaction]

Session == SessionOf(Cur)

\* the chain the provider is on and what is bound to it
ChainBindingOf(m) ==
    [chainId |-> m.state.chainId,
     currentChain |-> m.internal.currentChain,
     rpcUrl |-> m.internal.rpcUrl,
     account |-> m.internal.account,
     walletClient |-> m.internal.walletClient]

ChainBinding == ChainBindingOf(Cur)

\* C4: a call that fails, for whatever reason (validation, a rejection flag,
\* the backend, a listener that throws while an event is emitted), leaves the
\* session state as it was before the call.
C4_FailureLeavesSession ==
    [][(last'.op # "none" /\ last'.status = "error") => Session' = Session]_vars

\* the call observed is a chain switch, by either path
IsSwitch ==
    \/ last.op = "setChain"
    \/ IsRequest({"wallet_switchEthereumChain"}) /\ last.input.present

\* the chain id a switch asks for
SwitchTarget ==
    IF last.op = "setChain" THEN last.input ELSE parseInt16(last.input.chainId)

UnsupportedSwitch == IsSwitch /\ ~includes(state.supportedChainIds, SwitchTarget)

\* C5: a switch to a chain id outside supportedChainIds, by request or by
\* setChain, fails with the message that lists the supported ids, emits no
\* chainChanged, and leaves chainId, the current chain, the RPC URL and the
\* signer binding as they were.
C5_UnsupportedSwitchRefused ==
    [][UnsupportedSwitch' =>
           /\ last'.status = "error"
           /\ last'.error.message =
                  Msg("Chain ${chainId} is not supported. Supported chains: ${supportedChainIds.join(', ')}",
                      "", SwitchTarget', state.supportedChainIds)
           /\ \A i \in 1..Len(last'.emitted) : last'.emitted[i].event # "chainChanged"
           /\ ChainBinding' = ChainBinding]_vars

C5_Witness ==
    /\ IsRequest({"wallet_switchEthereumChain"})
    /\ last.input.present
    /\ parseInt16(last.input.chainId) = polygonId
    /\ last.status = "error"
    /\ Len(state.supportedChainIds) = 2
    /\ listeners["chainChanged"] # <<>>

\* C6: the unsupported-chain error of every chain switch, by request and by
\* setChain alike, carries the code 4902, which is not the rejection code 4001.
C6_UnsupportedChainCode ==
    (UnsupportedSwitch /\ last.status = "error") =>
        /\ last.error.hasCode
        /\ last.error.code = 4902
        /\ last.error.code # UserRejectedRequest

\* C7: from every state and for every supported chain id, setChain(c) and
\* request wallet_switchEthereumChain with c in hex leave the same chainId,
\* current chain, RPC URL and signer binding.  The two are compared wherever
\* the harness can make a call.
C7_SwitchPathsAgree ==
    Idle =>
        \A s \in ChainIdStrings :
            LET c == parseInt16(s)
            IN includes(state.supportedChainIds, c) =>
                   ChainBindingOf(setChain(Cur, c)) =
                       ChainBindingOf(request(Cur, "wallet_switchEthereumChain",
                                              Params(TRUE, s, NoTx, "none")))

C7_Witness ==
    /\ last.op = "setChain"
    /\ last.status = "ok"
    /\ state.chainId = mainnet.id
    /\ Len(internal.chains) = 2
    /\ internal.chains[1].id = arbitrum.id
    /\ internal.walletClient.chain = mainnet
    /\ internal.rpcUrl = DEFAULT_ANVIL_RPC_URL

\* C8: whatever the configuration (chains omitted, empty, one or several), the
\* active chainId is always one of supportedChainIds.
C8_ChainIdSupported == includes(state.supportedChainIds, state.chainId)

\* C9: in every state a caller or a listener can observe, accounts has exactly
\* one entry, the address of the signing identity.
C9_AccountsFollowIdentity ==
    /\ state.accounts = <<internal.account.address>>
    /\ \A i \in 1..Len(last.emitted) :
           last.emitted[i].seen.accounts = <<last.emitted[i].seen.signer>>

C9_Witness ==
    /\ last.op = "setSigningAccount"
    /\ last.status = "ok"
    /\ last.invoked # <<>>
    /\ last.emitted[1].seen.accounts = <<impersonated.address>>
    /\ state.accounts = <<impersonated.address>>

\* the call observed emitted connect
EmittedConnect == \E i \in 1..Len(last.emitted) : last.emitted[i].event = "connect"

\* a listener of the call observed called eth_requestAccounts itself
Reentered == \E i \in 1..Len(last.invoked) : last.invoked[i].listener = "reenter"

\* C10: connect is emitted exactly once, during the first eth_requestAccounts
\* (made by the caller or by a listener), and isConnected, once true, stays true.
C10_ConnectOnce ==
    /\ [](/\ connectEmits = (IF state.isConnected THEN 1 ELSE 0)
          /\ EmittedConnect => (IsRequest({"eth_requestAccounts"}) \/ Reentered)
          /\ IsRequest({"eth_requestAccounts"}) => state.isConnected)
    /\ [][state.isConnected => state.isConnected']_vars

C10_Witness ==
    /\ IsRequest({"eth_requestAccounts"})
    /\ \E i \in 1..Len(last.invoked) :
           last.invoked[i].listener = "reenter" /\ last.invoked[i].event = "connect"
    /\ connectEmits = 1
    /\ requestId = 2

\* C11: after a successful setSigningAccount that resolves to X, and until the
\* next account switch, every eth_accounts and every eth_requestAccounts
\* request returns exactly [X.address]: a successful switch makes X the
\* identity, only an account switch changes the identity, and both requests
\* return the identity's address.
C11_AccountsRoundTrip ==
    /\ [][(last'.op = "setSigningAccount" /\ last'.status = "ok") =>
              internal'.account = resolveAccount(last'.input).account]_vars
    /\ [][internal'.account # internal.account => last'.op = "setSigningAccount"]_vars
    /\ [](IsRequest({"eth_accounts", "eth_requestAccounts"}) =>
              /\ last.status = "ok"
              /\ last.result = Res("accounts", <<internal.account.address>>, <<>>))

\* what the call observed emitted itself, not what a request made by one of
\* its listeners emitted
OwnEmitted == SelectSeq(last.emitted, LAMBDA e : e.depth = 0)

\* C12: a successful setSigningAccount emits accountsChanged exactly once,
\* with the one-element list of the new identity's address, and nothing
\* else; one that fails input validation emits nothing.
C12_AccountsChangedOnce ==
    last.op = "setSigningAccount" =>
        LET r == resolveAccount(last.input)
        IN /\ last.status = "ok" =>
                  /\ Len(OwnEmitted) = 1
                  /\ OwnEmitted[1].event = "accountsChanged"
                  /\ OwnEmitted[1].args = Args(<<>>, <<r.account.address>>, 0, "")
                  /\ internal.account = r.account
           /\ r.thrown => last.status = "error" /\ last.emitted = <<>> /\ last.invoked = <<>>

C12_Witness ==
    /\ last.op = "setSigningAccount"
    /\ last.status = "ok"
    /\ last.input = StringInput(customKey)
    /\ Len(last.emitted) = 2
    /\ last.emitted[2].event = "connect"

\* the numbers that are a whole index of the account table, in tenths
WholeIndexes == {10 * i : i \in 0..9}

\* C13: setSigningAccount with a number accepts exactly the integers 0 to 9,
\* selecting the table entry at that index, and refuses every other number
\* with the message "Invalid Anvil account index ...", the account unchanged.
C13_NumericIndex ==
    [][(last'.op = "setSigningAccount" /\ last'.input.type = "number") =>
           LET t == last'.input.tenths
           IN IF t \in WholeIndexes
              THEN /\ internal'.account.address = ANVIL_ACCOUNTS[(t \div 10) + 1].address
                   /\ internal'.account.signer = ANVIL_ACCOUNTS[(t \div 10) + 1].privateKey.lower
                   /\ state'.accounts = <<ANVIL_ACCOUNTS[(t \div 10) + 1].address>>
                   /\ last'.error.name # "Error"
              ELSE /\ last'.status = "error"
                   /\ last'.error.message =
                          Msg("Invalid Anvil account index: ${input}. Must be 0-9.", "", t, NoList)
                   /\ internal'.account = internal.account
                   /\ state'.accounts = state.accounts]_vars

C13_Witness ==
    /\ last.op = "setSigningAccount"
    /\ last.input = NumberInput(90)
    /\ last.status = "ok"
    /\ internal.account.address = ANVIL_ACCOUNTS[10].address
    /\ internal.walletClient.account.address = ANVIL_ACCOUNTS[10].address

\* the methods request passes on to the network
ForwardedMethods ==
    (RequestMethods \ (WALLET_METHODS \cup WRITE_METHODS)) \cup {"eth_sendRawTransaction"}

\* the URL the routing table gives for a chain
UrlOfChain(chainId) ==
    IF chainId \in DOMAIN internal.rpcUrls THEN internal.rpcUrls[chainId]
    ELSE "http://127.0.0.1:8545"

LocalMethods ==
    {"eth_accounts", "eth_chainId", "net_version", "eth_requestAccounts",
     "wallet_requestPermissions", "wallet_getPermissions", "wallet_addEthereumChain",
     "wallet_switchEthereumChain"}

\* C16: a request for one of the eight wallet-state methods never issues a
\* network call and never calls the wallet client, in any state.
C16_WalletMethodsStayLocal ==
    IsRequest(LocalMethods) =>
        /\ last.issued = <<>>
        /\ pending = {}
        /\ last.status \in {"ok", "error"}

C16_Witness ==
    /\ IsRequest({"wallet_addEthereumChain"})
    /\ last.status = "ok"
    /\ last.result = Null
    /\ last.issued = <<>>
    /\ internal.rejectTransaction

\* C15: a request in flight keeps the destination it was issued to when a
\* chain switch completes meanwhile: a call stays in flight as it was issued
\* until its own return, a switch neither changes nor adds a call, and a call
\* is issued once, by its request, to the URL current at that moment.
C15_InFlightKeepsUrl ==
    /\ [][\A call \in pending :
              \/ call \in pending'
              \/ last'.op = "settle" /\ last'.settled = call /\ pending' = pending \ {call}]_vars
    /\ [][(IsSwitch' \/ last'.op = "setChain") => pending' = pending]_vars
    /\ [][\A call \in pending' \ pending :
              /\ last'.op = "request"
              /\ last'.issued = <<call>>
              /\ call.req = requestId'
              /\ call.api = "fetch" => call.url = internal.rpcUrl]_vars

C15_Witness ==
    /\ last.op = "settle"
    /\ last.settled.api = "fetch"
    /\ last.settled.url = "http://arbitrum-anvil:8546"
    /\ internal.rpcUrl = "http://127.0.0.1:8545"
    /\ state.chainId = mainnet.id

\* the listeners the call observed invoked itself, in the order of the calls
OwnInvoked == SelectSeq(last.invoked, LAMBDA v : v.depth = 0)

\* the call observed emitted an event
Emitting == OwnEmitted # <<>>

\* the listeners registered for the event the call observed emitted
EmittedTo == listeners[OwnEmitted[1].event]

\* how many times the call observed invoked a listener
TimesInvoked(listener) ==
    Cardinality({i \in 1..Len(OwnInvoked) : OwnInvoked[i].listener = listener})

\* C17: when an event is emitted to several listeners and one of them throws,
\* every other listener registered for the event is still invoked.
C17_ListenersIsolated ==
    (Emitting /\ Len(EmittedTo) >= 2 /\ InSeq("thrower", EmittedTo)) =>
        \A i \in 1..Len(EmittedTo) : TimesInvoked(EmittedTo[i]) >= 1

\* C18: emit invokes each listener registered for the event exactly once, in
\* registration order, with the arguments given, all of them within the call
\* that emits, and no listener of another event.
C18_EmitInOrder ==
    Emitting =>
        /\ [i \in 1..Len(OwnInvoked) |-> OwnInvoked[i].listener] = EmittedTo
        /\ \A i \in 1..Len(OwnInvoked) :
               /\ OwnInvoked[i].event = OwnEmitted[1].event
               /\ OwnInvoked[i].args = OwnEmitted[1].args

\* how many times a listener is in a registry entry
Occurrences(ls, listener) == Cardinality({i \in 1..Len(ls) : ls[i] = listener})

\* C19: the registry is a set: on makes the listener a member once, however
\* often it is repeated, removeListener makes it absent and never fails, and
\* emit invokes a listener once if it is a member and not at all otherwise.
C19_SetSemantics ==
    /\ [][(last'.op = "on" /\ last'.arg \in EventNames) =>
              /\ last'.status = "ok"
              /\ Occurrences(listeners'[last'.arg], last'.input) = 1
              /\ \A e \in EventNames : \A l \in ListenerIds :
                     (e # last'.arg \/ l # last'.input) =>
                         Occurrences(listeners'[e], l) = Occurrences(listeners[e], l)]_vars
    /\ [][(last'.op = "removeListener" /\ last'.arg \in EventNames) =>
              /\ last'.status = "ok"
              /\ Occurrences(listeners'[last'.arg], last'.input) = 0
              /\ \A e \in EventNames : \A l \in ListenerIds :
                     (e # last'.arg \/ l # last'.input) =>
                         Occurrences(listeners'[e], l) = Occurrences(listeners[e], l)]_vars
    /\ [][(last'.op \notin {"on", "removeListener"}) => listeners' = listeners]_vars
    /\ [](Emitting =>
              \A l \in ListenerIds :
                  TimesInvoked(l) = (IF InSeq(l, EmittedTo) THEN 1 ELSE 0))

\* C20: on never fails: with an event name outside the fixed set it stores
\* the listener and raises no error.
C20_OnNeverFails ==
    last.op = "on" =>
        /\ last.status = "ok"
        /\ last.arg \in DOMAIN listeners
        /\ InSeq(last.input, listeners[last.arg])

\* the call observed is the return of a forwarded request
ForwardReturned == last.op = "settle" /\ last.settled.api = "fetch"

\* C21: a forwarded request rejects with exactly the code and message of the
\* response's error object, resolves with the response's result as it is, and
\* passes on a failure of the network call itself unchanged and without a
\* code, so that the two kinds of error can be told apart.
C21_ForwarderOutcome ==
    ForwardReturned =>
        CASE last.input.kind = "rpcError" ->
                 /\ last.status = "error"
                 /\ last.error.hasCode
                 /\ last.error.code = last.input.code
                 /\ last.error.message.text = last.input.message
          [] last.input.kind = "result" ->
                 /\ last.status = "ok"
                 /\ last.result = Res("backend", <<>>, last.input.result)
          [] OTHER ->
                 /\ last.status = "error"
                 /\ ~last.error.hasCode
                 /\ last.error.message.text = last.input.message

C21_Witness ==
    /\ ForwardReturned
    /\ last.arg = "eth_getBalance"
    /\ last.input.kind = "rpcError"
    /\ last.error.code = -32600

\* C22: disconnect emits exactly one event, disconnect with code 4900 and
\* message "Disconnected", and changes nothing: the provider shows the state
\* from before the call when the event is emitted, the listeners stay
\* registered, and afterwards the session state is as before, but for what a
\* request made by a listener has done.
C22_DisconnectFrame ==
    [][last'.op = "disconnect" =>
           /\ Len(OwnEmitted') = 1
           /\ OwnEmitted'[1].event = "disconnect"
           /\ OwnEmitted'[1].args = Args(<<>>, <<>>, 4900, "Disconnected")
           /\ OwnEmitted'[1].seen = Seen(Cur)
           /\ listeners' = listeners
           /\ pending' = pending
           /\ IF Reentered'
              THEN Session' = [Session EXCEPT !.isConnected = TRUE]
              ELSE Session' = Session /\ requestId' = requestId]_vars

C22_Witness ==
    /\ last.op = "disconnect"
    /\ last.status = "ok"
    /\ state.isConnected
    /\ internal.rejectSignature
    /\ Len(last.invoked) = 1
    /\ last.invoked[1].listener = "recorder"

\* C23: setRejectSignature(b) and setRejectTransaction(b) set their flag to
\* b, emit nothing and change nothing else, so that a flag switched on and off
\* again leaves every write request doing what it did before.
C23_FlagFrame ==
    /\ [][last'.op = "setRejectSignature" =>
              /\ internal' = [internal EXCEPT !.rejectSignature = last'.input]
              /\ last'.status = "ok" /\ last'.emitted = <<>> /\ last'.invoked = <<>>
              /\ UNCHANGED <<state, listeners, requestId, pending>>]_vars
    /\ [][last'.op = "setRejectTransaction" =>
              /\ internal' = [internal EXCEPT !.rejectTransaction = last'.input]
              /\ last'.status = "ok" /\ last'.emitted = <<>> /\ last'.invoked = <<>>
              /\ UNCHANGED <<state, listeners, requestId, pending>>]_vars
    /\ [](Idle =>
              \A method \in WRITE_METHODS : \A params \in ParamsFor(method) :
                  /\ ~internal.rejectSignature =>
                         request(setRejectSignature(setRejectSignature(Cur, TRUE), FALSE),
                                 method, params) = request(Cur, method, params)
                  /\ ~internal.rejectTransaction =>
                         request(setRejectTransaction(setRejectTransaction(Cur, TRUE), FALSE),
                                 method, params) = request(Cur, method, params))

C23_Witness ==
    /\ last.op = "setRejectSignature"
    /\ last.input = FALSE
    /\ ~internal.rejectSignature
    /\ internal.rejectTransaction
    /\ state.isConnected

\* C24: wallet_addEthereumChain succeeds for every chain descriptor, returns
\* null, emits nothing and changes no state; supportedChainIds never changes,
\* so that a switch to a chain that was only added is refused as unsupported.
C24_AddChainFrame ==
    /\ [][IsRequest({"wallet_addEthereumChain"})' =>
              /\ last'.status = "ok"
              /\ last'.result = Null
              /\ last'.emitted = <<>> /\ last'.invoked = <<>> /\ last'.issued = <<>>
              /\ UNCHANGED <<internal, state, listeners, pending>>]_vars
    /\ [][state'.supportedChainIds = state.supportedChainIds]_vars
    /\ [](Idle =>
              \A s \in ChainIdStrings :
                  LET params == Params(TRUE, s, NoTx, "none")
                      added == request(Cur, "wallet_addEthereumChain", params)
                      switched == request(added, "wallet_switchEthereumChain", params)
                  IN ~includes(state.supportedChainIds, parseInt16(s)) =>
                         /\ switched.thrown
                         /\ switched.error.code = 4902
                         /\ switched.state = state)

C24_Witness ==
    /\ IsRequest({"wallet_addEthereumChain"})
    /\ last.input.present
    /\ parseInt16(last.input.chainId) = polygonId
    /\ last.status = "ok"
    /\ ~includes(state.supportedChainIds, polygonId)
    /\ Len(state.supportedChainIds) = 2

\* the methods that are listed as Write or WalletState and have no handler case
UnhandledMethods ==
    {"eth_signTransaction", "wallet_revokePermissions", "wallet_watchAsset",
     "wallet_scanQRCode", "wallet_registerOnboarding"}

\* C25: a request for a method that is listed as Write or WalletState but has
\* no handler case is rejected with an "Unsupported ... method" error that
\* names the method; it makes no network call and no signing call and changes
\* no state.
C25_UnsupportedMethod ==
    [][IsRequest(UnhandledMethods)' =>
           /\ last'.status = "error"
           /\ ~last'.error.hasCode
           /\ last'.error.message =
                  Msg(IF last'.arg = "eth_signTransaction"
                      THEN "Unsupported write method: ${method}"
                      ELSE "Unsupported wallet method: ${method}", last'.arg, 0, NoList)
           /\ last'.issued = <<>> /\ last'.emitted = <<>>
           /\ UNCHANGED <<internal, state, listeners, pending>>]_vars

C25_Witness ==
    /\ IsRequest({"eth_signTransaction"})
    /\ last.status = "error"
    /\ internal.rejectSignature
    /\ internal.rejectTransaction
    /\ last.issued = <<>>

\* C26: eth_sendRawTransaction is forwarded, whatever the rejection flags are:
\* the request makes exactly one fetch, to the active chain's RPC URL, with the
\* method name and the caller's params, and no wallet-client call; the result
\* the endpoint answers with is the result of the request.
C26_RawForwarded ==
    /\ IsRequest({"eth_sendRawTransaction"}) =>
           /\ last.status = "pending"
           /\ Len(last.issued) = 1
           /\ last.issued[1].api = "fetch"
           /\ last.issued[1].method = "eth_sendRawTransaction"
           /\ last.issued[1].params = last.input
           /\ last.issued[1].url = UrlOfChain(state.chainId)
           /\ last.issued[1].client = NoClient
    /\ (ForwardReturned /\ last.settled.method = "eth_sendRawTransaction"
            /\ last.input.kind = "result") =>
           /\ last.status = "ok"
           /\ last.result = Res("backend", <<>>, last.input.result)
    /\ \A call \in pending :
           call.method = "eth_sendRawTransaction" => call.api = "fetch"

C26_Witness ==
    /\ IsRequest({"eth_sendRawTransaction"})
    /\ last.input.present
    /\ internal.rejectTransaction
    /\ internal.rejectSignature
    /\ state.chainId = mainnet.id
    /\ mainnet.id \notin DOMAIN internal.rpcUrls
    /\ Len(last.issued) = 1
    /\ last.issued[1].url = "http://127.0.0.1:8545"

\* eth_sendTransaction has handed its transaction request to the wallet client
SentTransaction ==
    /\ IsRequest({"eth_sendTransaction"})
    /\ Len(last.issued) = 1
    /\ last.issued[1].api = "sendTransaction"

\* The statement of C27 as the specification words it: the transaction
\* request carries exactly one pricing strategy for every combination.
C27_ExactlyOneStrategy ==
    SentTransaction =>
        (last.issued[1].pricing.gasPrice # last.issued[1].pricing.maxFeePerGas)

\* C27: the transaction request handed to the wallet client never carries both
\* pricing strategies: it carries the max-fee pair when maxFeePerGas is given
\* (the priority fee only as given), else the legacy gas price when gasPrice is
\* given, else no pricing field at all (a priority fee given alone is dropped).
C27_AtMostOneStrategy ==
    SentTransaction =>
        LET tx == last.input.tx
            pricing == last.issued[1].pricing
        IN /\ ~(pricing.gasPrice /\ pricing.maxFeePerGas)
           /\ pricing.maxFeePerGas = tx.maxFeePerGas
           /\ pricing.maxPriorityFeePerGas = (tx.maxFeePerGas /\ tx.maxPriorityFeePerGas)
           /\ pricing.gasPrice = (tx.gasPrice /\ ~tx.maxFeePerGas)

C27_Witness ==
    /\ SentTransaction
    /\ last.input.tx.gasPrice
    /\ last.input.tx.maxFeePerGas
    /\ ~last.issued[1].pricing.gasPrice
    /\ last.issued[1].pricing.maxFeePerGas

\* C28: the Read, Write and WalletState method lists are pairwise disjoint:
\* the method of a request is recognised by at most one of the three type
\* guards.
C28_PairwiseDisjoint ==
    IsRequest(READ_METHODS \cup WALLET_METHODS \cup WRITE_METHODS) =>
        /\ ~(isReadMethod(last.arg) /\ isWalletMethod(last.arg))
        /\ ~(isReadMethod(last.arg) /\ isWriteMethod(last.arg))
        /\ ~(isWalletMethod(last.arg) /\ isWriteMethod(last.arg))

\* the fetch envelopes a step sends
Sent(before, after) == {call \in after \ before : call.api = "fetch"}

\* C29: the request counter grows by one with every request call, successful,
\* failed or pending, and with no other operation, so it never decreases; an
\* envelope carries the counter's value at the time it is sent, which is
\* larger than the id of every envelope sent before, so that the ids of the
\* requests in flight are pairwise distinct.
C29_CounterAndIds ==
    /\ [][requestId' = requestId + (IF last'.op = "request" THEN 1 ELSE 0)]_vars
    /\ [][\A call \in Sent(pending, pending') :
              /\ last'.op = "request"
              /\ call.req = requestId'
              /\ \A earlier \in pending : earlier.req < call.req]_vars
    /\ [](\A event \in OnEvents : \A listener \in ListenerIds :
              /\ on(Cur, event, listener).requestId = requestId
              /\ removeListener(Cur, event, listener).requestId = requestId)
    /\ [](\A call \in pending : call.req \in 1..requestId)
    /\ [](\A a \in pending : \A b \in pending : a.req = b.req => a = b)

C29_Witness ==
    /\ IsRequest({"eth_sendRawTransaction"})
    /\ last.status = "pending"
    /\ requestId = 2
    /\ \E a \in pending : a.api = "fetch" /\ a.method = "eth_getBalance" /\ a.req = 1
    /\ \E b \in pending : b.api = "fetch" /\ b.method = last.arg /\ b.req = 2

\* C30: a successful chain switch, by setChain or by wallet_switchEthereumChain
\* in any accepted spelling of the chainId parameter, emits chainChanged
\* exactly once, with the string eth_chainId returns right after it.
C30_ChainChangedCanonical ==
    (IsSwitch /\ last.status = "ok") =>
        /\ Len(OwnEmitted) = 1
        /\ OwnEmitted[1].event = "chainChanged"
        /\ Res("string", <<>>, OwnEmitted[1].args.chainId)
               = request(Cur, "eth_chainId", NoParams).result

\* C31: setChain to a supported chain always emits chainChanged once, with the
\* chain id in hex, and the first listener registered for it is invoked once;
\* this is so also when the target is the chain already active, and then the
\* chain, its binding and the accounts are what they were.
C31_SetChainAlwaysEmits ==
    /\ []((last.op = "setChain" /\ last.status = "ok") =>
              /\ Len(OwnEmitted) = 1
              /\ OwnEmitted[1].event = "chainChanged"
              /\ OwnEmitted[1].seen.chainId = last.input)
    /\ [][(last'.op = "setChain" /\ includes(state.supportedChainIds, last'.input)) =>
              /\ Len(OwnEmitted') = 1
              /\ OwnEmitted'[1].event = "chainChanged"
              /\ OwnEmitted'[1].args = Args(Hex0x(last'.input), <<>>, 0, "")
              /\ listeners.chainChanged # <<>> =>
                     TimesInvoked(Head(listeners.chainChanged))' = 1
              /\ last'.input = state.chainId =>
                     /\ ChainBinding' = ChainBinding
                     /\ state'.accounts = state.accounts
                     /\ state'.supportedChainIds = state.supportedChainIds
                     /\ ~Reentered' => (state' = state /\ internal' = internal)]_vars

C31_Witness ==
    /\ last.op = "setChain"
    /\ last.status = "ok"
    /\ Len(internal.chains) = 1
    /\ last.input = mainnet.id
    /\ state.chainId = mainnet.id
    /\ listeners.chainChanged = <<"recorder">>
    /\ Len(OwnInvoked) = 1
    /\ OwnEmitted[1].seen.chainId = mainnet.id

\* the table entries whose address is the text, letter case aside
TableMatches(text) == {i \in 1..10 : ANVIL_ACCOUNTS[i].address.lower = text.lower}

\* the input is not a number and its shape makes setSigningAccount fail
FailsByShape(input) ==
    /\ input.type # "number"
    /\ ~(input.type = "object" /\ input.hasAddress)
    /\ \/ input.text.length \notin {42, 66}
       \/ input.text.length = 42 /\ TableMatches(input.text) = {}
       \/ input.text.length = 66 /\ input.text.spelled = "nothex"

\* C32: setSigningAccount resolves an input that is not a number by its shape:
\* an object with an address becomes the identity; a 66-character string is
\* taken as a private key, whether the table knows it or not; a 42-character
\* string selects the table entry with that address, letter case aside, and
\* fails with "is not a default Anvil account" when there is none; any other
\* string fails with "Invalid input".  A call that fails so leaves the account,
\* the accounts list and the wallet client as they were and emits nothing.
C32_ResolveByShape ==
    /\ []((last.op = "setSigningAccount" /\ last.input.type # "number") =>
              LET input == last.input
              IN CASE input.type = "object" /\ input.hasAddress ->
                          /\ internal.account = input.account
                          /\ state.accounts = <<input.account.address>>
                   [] input.type # "object" /\ input.text.length = 66 ->
                          IF input.text.spelled = "nothex"
                          THEN last.status = "error" /\ last.error.name = "InvalidPrivateKeyError"
                          ELSE /\ internal.account.signer = input.text.lower
                               /\ internal.account.type = "local"
                               /\ state.accounts = <<internal.account.address>>
                   [] input.type # "object" /\ input.text.length = 42 ->
                          IF TableMatches(input.text) = {}
                          THEN /\ last.status = "error"
                               /\ last.error.message =
                                      Msg("Address ${inputStr} is not a default Anvil account.",
                                          input.text.lower, 0, NoList)
                          ELSE \E i \in TableMatches(input.text) :
                                   /\ internal.account.address = ANVIL_ACCOUNTS[i].address
                                   /\ internal.account.signer = ANVIL_ACCOUNTS[i].privateKey.lower
                                   /\ state.accounts = <<ANVIL_ACCOUNTS[i].address>>
                   [] OTHER ->
                          /\ last.status = "error"
                          /\ last.error.name = "Error"
                          /\ last.error.message.text = "Invalid input: expected index (0-9), address (42 chars), private key (66 chars), or Account object.")
    /\ [][(last'.op = "setSigningAccount" /\ FailsByShape(last'.input)) =>
              /\ last'.status = "error"
              /\ last'.emitted = <<>>
              /\ internal' = internal
              /\ state' = state]_vars

C32_Witness ==
    /\ last.op = "setSigningAccount"
    /\ last.input = StringInput(Text(42, AnvilAddressLower[10], "upper"))
    /\ last.status = "ok"
    /\ internal.account.address = ANVIL_ACCOUNTS[10].address
    /\ internal.walletClient.account.address = ANVIL_ACCOUNTS[10].address
    /\ state.accounts = <<ANVIL_ACCOUNTS[10].address>>

(***************************************************************************)
(* The standalone helpers of provider-controls.ts.  A helper is applied to *)
(* an object: has is the set of control methods the object carries, m the  *)
(* provider behind it.                                                     *)
(***************************************************************************)
ControlNames ==
    {"setChain", "disconnect", "setSigningAccount", "setRejectSignature", "setRejectTransaction"}

Target(m, has) == [m |-> m, has |-> has]

\* new Error("Provider does not support <name>. Make sure you're using ...")
NotSupported(name) ==
    Error(Msg("Provider does not support ${name}. Make sure you're using a provider created with createE2EProvider.",
              name, 0, NoList))

controls_setChain(p, chainId) ==
    IF "setChain" \notin p.has THEN Throw(p.m, NotSupported("setChain"))
    ELSE setChain(p.m, chainId)

controls_disconnect(p) ==
    IF "disconnect" \notin p.has THEN Throw(p.m, NotSupported("disconnect"))
    ELSE disconnect(p.m)

controls_setSigningAccount(p, account) ==
    IF "setSigningAccount" \notin p.has THEN Throw(p.m, NotSupported("setSigningAccount"))
    ELSE setSigningAccount(p.m, account)

controls_setRejectSignature(p, reject) ==
    IF "setRejectSignature" \notin p.has THEN Throw(p.m, NotSupported("setRejectSignature"))
    ELSE setRejectSignature(p.m, reject)

\* a mutant: the transaction helper drives the signature flag
controls_setRejectTransaction_WrongFlag(p, reject) ==
    IF "setRejectTransaction" \notin p.has THEN Throw(p.m, NotSupported("setRejectTransaction"))
    ELSE setRejectSignature(p.m, reject)

controls_setRejectTransaction(p, reject) ==
    IF "setRejectTransaction" \notin p.has THEN Throw(p.m, NotSupported("setRejectTransaction"))
    ELSE setRejectTransaction(p.m, reject)

\* the objects a helper is given: a provider of createE2EProvider, an object
\* that lacks one control method, an object with none of them
Objects == {ControlNames} \cup {ControlNames \ {name} : name \in ControlNames} \cup {{}}

\* the call observed was made through the helper of that name
Helper(name, has, input, m) ==
    Last(name, IF name \in has THEN "helper of provider" ELSE "helper of object", input, m)

HelperSetChain(has, chainId) ==
    LET m == controls_setChain(Target(Cur, has), chainId)
    IN Install(m) /\ last' = Helper("setChain", has, chainId, m)

HelperDisconnect(has) ==
    LET m == controls_disconnect(Target(Cur, has))
    IN Install(m) /\ last' = Helper("disconnect", has, "", m)

HelperSetSigningAccount(has, input) ==
    LET m == controls_setSigningAccount(Target(Cur, has), input)
    IN Install(m) /\ last' = Helper("setSigningAccount", has, input, m)

HelperSetRejectSignature(has, reject) ==
    LET m == controls_setRejectSignature(Target(Cur, has), reject)
    IN Install(m) /\ last' = Helper("setRejectSignature", has, reject, m)

HelperSetRejectTransaction(has, reject) ==
    LET m == controls_setRejectTransaction(Target(Cur, has), reject)
    IN Install(m) /\ last' = Helper("setRejectTransaction", has, reject, m)

NextControls ==
    \/ \E has \in Objects : \E chainId \in ChainIdInputs : Idle /\ HelperSetChain(has, chainId)
    \/ \E has \in Objects : Idle /\ HelperDisconnect(has)
    \/ \E has \in Objects : \E input \in SigningInputs : Idle /\ HelperSetSigningAccount(has, input)
    \/ \E has \in Objects : \E reject \in BOOLEAN : Idle /\ HelperSetRejectSignature(has, reject)
    \/ \E has \in Objects : \E reject \in BOOLEAN : Idle /\ HelperSetRejectTransaction(has, reject)
    \/ \E event \in OnEvents : \E listener \in ListenerIds : Idle /\ On(event, listener)
    \/ Collect

SpecControls == Init /\ [][NextControls]_vars

\* the call observed went through a helper, to a provider or to another object
ViaHelper == last.arg \in {"helper of provider", "helper of object"}

\* what the provider's own method of that name does with the argument
Method(name, m, input) ==
    CASE name = "setChain" -> setChain(m, input)
      [] name = "disconnect" -> disconnect(m)
      [] name = "setSigningAccount" -> setSigningAccount(m, input)
      [] name = "setRejectSignature" -> setRejectSignature(m, input)
      [] name = "setRejectTransaction" -> setRejectTransaction(m, input)

\* the step is the call with that outcome
Did(m) ==
    /\ internal' = m.internal
    /\ state' = m.state
    /\ requestId' = m.requestId
    /\ listeners' = m.listeners
    /\ pending' = m.pending
    /\ last'.status = (IF m.thrown THEN "error" ELSE "ok")
    /\ last'.error = m.error
    /\ last'.result = m.result
    /\ last'.emitted = m.emitted
    /\ last'.invoked = m.invoked
    /\ last'.issued = m.issued

\* C33: a helper applied to a provider does what the provider's method of the
\* same name does with the same argument (state, events, listeners invoked,
\* outcome); applied to an object without that method it throws "Provider does
\* not support <name>" and nothing else happens: nothing is emitted, no
\* listener is invoked, no request is made, no state changes.
C33_HelpersAreMethods ==
    /\ [][(ViaHelper' /\ last'.arg = "helper of provider") =>
              Did(Method(last'.op, Cur, last'.input))]_vars
    /\ [][(ViaHelper' /\ last'.arg = "helper of object") =>
              /\ UNCHANGED <<internal, state, requestId, listeners, pending, connectEmits>>]_vars
    /\ []((ViaHelper /\ last.arg = "helper of object") =>
              /\ last.status = "error"
              /\ last.error = Error(Msg("Provider does not support ${name}. Make sure you're using a provider created with createE2EProvider.",
                                        last.op, 0, NoList))
              /\ last.emitted = <<>> /\ last.invoked = <<>> /\ last.issued = <<>>)
    /\ []((ViaHelper /\ last.op = "setRejectTransaction" /\ last.arg = "helper of provider") =>
              internal.rejectTransaction = last.input)

C33_Witness ==
    /\ ViaHelper
    /\ last.op = "setChain"
    /\ last.arg = "helper of provider"
    /\ last.status = "ok"
    /\ Len(internal.chains) = 2
    /\ state.chainId = mainnet.id
    /\ Len(last.invoked) = 1

\* the connect events among those the call observed emitted, nested ones included
ConnectEvents == SelectSeq(last.emitted, LAMBDA e : e.event = "connect")

\* C34: what the provider shows at the moment an event is emitted is the
\* updated session: at chainChanged the chain id and the wallet client's
\* chain are the new chain, at accountsChanged the accounts list, the identity
\* and the wallet client's account are the new account, at connect
\* isConnected is true, so that eth_requestAccounts asked from inside a
\* connect listener emits no second connect.
C34_UpdatedBeforeEvent ==
    /\ \A i \in 1..Len(last.emitted) :
           LET e == last.emitted[i]
           IN /\ e.event = "chainChanged" =>
                     /\ e.seen.chainId = SwitchTarget
                     /\ e.seen.clientChainId = SwitchTarget
                     /\ e.seen.chainId = state.chainId
              /\ e.event = "accountsChanged" =>
                     /\ e.seen.accounts = e.args.accounts
                     /\ e.seen.signer = e.args.accounts[1]
                     /\ e.seen.clientSigner = e.args.accounts[1]
                     /\ e.seen.accounts = state.accounts
              /\ e.event = "connect" =>
                     /\ e.seen.isConnected
                     /\ e.args.chainId = Hex0x(e.seen.chainId)
    /\ Len(ConnectEvents) <= 1

C34_Witness ==
    /\ IsRequest({"eth_requestAccounts"})
    /\ last.status = "ok"
    /\ listeners.connect = <<"reenter">>
    /\ Len(ConnectEvents) = 1
    /\ ConnectEvents[1].seen.isConnected
    /\ Reentered

\* the wallet-client operations
SigningApis == {"sendTransaction", "signMessage", "signTypedData"}

\* the write requests that are signed
SignedMethods == signingMethods \cup {"eth_sendTransaction"}

\* C35: a write request that is not rejected hands its operation to the
\* wallet client of that moment, built for the account, the chain and the
\* RPC URL then current; an account switch, a chain switch or a rejection
\* toggle made while the operation is in flight leaves the operation as it was
\* handed over, and when it returns the request settles with the backend's
\* outcome, never with a user rejection, whatever the flags are by then.
C35_BoundAtCall ==
    /\ [][(IsRequest(SignedMethods)' /\ last'.status = "pending") =>
              /\ Len(last'.issued) = 1
              /\ last'.issued[1].api \in SigningApis
              /\ last'.issued[1].client =
                     createWalletClient(internal.account, internal.currentChain, internal.rpcUrl)
              /\ last'.issued[1].client = internal.walletClient
              /\ ~(last'.arg = "eth_sendTransaction" /\ internal.rejectTransaction)
              /\ ~(last'.arg \in signingMethods /\ internal.rejectSignature)]_vars
    /\ [][last'.op \in {"setSigningAccount", "setChain", "setRejectSignature",
                        "setRejectTransaction", "disconnect"} => pending' = pending]_vars
    /\ [][(IsRequest({"wallet_switchEthereumChain"})') => pending' = pending]_vars
    /\ []((last.op = "settle" /\ last.settled.api \in SigningApis) =>
              IF last.input.kind = "result"
              THEN last.status = "ok" /\ last.result = Res("backend", <<>>, last.input.result)
              ELSE /\ last.status = "error"
                   /\ ~last.error.hasCode
                   /\ last.error.message.text = last.input.message)

C35_Witness ==
    /\ last.op = "settle"
    /\ last.settled.api = "signMessage"
    /\ last.status = "ok"
    /\ last.settled.client.account.address # internal.account.address
    /\ last.settled.client.chain.id # state.chainId
    /\ internal.rejectSignature

\* C36: with several requests in flight, a backend call that returns settles
\* the request that issued it, and no other, with the outcome of that call:
\* the result it answered, or its error; the other calls stay in flight, in
\* whatever order the calls return.
C36_OwnOutcome ==
    /\ [](last.op = "settle" =>
              /\ last.req = last.settled.req
              /\ last.arg = last.settled.method
              /\ \A other \in pending : other.req # last.req
              /\ IF last.input.kind = "result"
                 THEN last.status = "ok" /\ last.result = Res("backend", <<>>, last.input.result)
                 ELSE /\ last.status = "error"
                      /\ last.error.message.text = last.input.message
                      /\ last.error.hasCode =
                             (last.input.kind = "rpcError" /\ last.settled.api = "fetch"))
    /\ [][last'.op = "settle" =>
              /\ last'.settled \in pending
              /\ pending' = pending \ {last'.settled}
              /\ UNCHANGED <<internal, state, requestId, listeners>>]_vars

C36_Witness ==
    /\ last.op = "settle"
    /\ last.req = 2
    /\ last.status = "error"
    /\ \E first \in pending : first.req = 1 /\ first.api = "fetch"

\* the same provider with both rejection flags off
FlagsOff(m) == [m EXCEPT !.internal.rejectSignature = FALSE, !.internal.rejectTransaction = FALSE]

\* the methods the rejection flags have no say in
Unflagged == (RequestMethods \cup READ_METHODS) \ SignedMethods

\* C37: for every method other than eth_sendTransaction and the five signing
\* methods, a request does the same whatever the rejection flags are: the
\* same outcome, the same state change, the same events to the same
\* listeners and the same backend calls as on the provider that differs only
\* in having both flags off.
C37_FlagsDoNotInterfere ==
    Idle =>
        \A method \in Unflagged : \A params \in ParamsFor(method) :
            FlagsOff(request(Cur, method, params)) = request(FlagsOff(Cur), method, params)

C37_Witness ==
    /\ IsRequest({"wallet_switchEthereumChain"})
    /\ last.status = "ok"
    /\ internal.rejectSignature
    /\ internal.rejectTransaction
    /\ Len(OwnEmitted) = 1
    /\ Len(OwnInvoked) = 1

\* the call observed switches the account
IsAccountSwitch == last.op = "setSigningAccount"

\* C38: however account switches and chain switches interleave, the wallet
\* client is the one built for the active account, the active chain and that
\* chain's RPC URL, and accounts lists the active account alone; an account
\* switch leaves chainId, the chain and the RPC URL alone, and a chain switch
\* leaves accounts and the identity alone.
C38_ClientFollowsBoth ==
    /\ [](/\ internal.walletClient =
                 createWalletClient(internal.account, internal.currentChain, internal.rpcUrl)
          /\ internal.currentChain.id = state.chainId
          /\ internal.rpcUrl = UrlOfChain(state.chainId)
          /\ state.accounts = <<internal.account.address>>)
    /\ [][IsAccountSwitch' =>
              /\ state'.chainId = state.chainId
              /\ internal'.currentChain = internal.currentChain
              /\ internal'.rpcUrl = internal.rpcUrl
              /\ internal'.walletClient.chain = internal.walletClient.chain
              /\ internal'.walletClient.transport = internal.walletClient.transport]_vars
    /\ [][IsSwitch' =>
              /\ state'.accounts = state.accounts
              /\ internal'.account = internal.account
              /\ internal'.walletClient.account = internal.walletClient.account]_vars

C38_Witness ==
    /\ IsSwitch
    /\ last.status = "ok"
    /\ Len(internal.chains) = 2
    /\ state.chainId = mainnet.id
    /\ internal.account = impersonated
    /\ internal.walletClient = createWalletClient(impersonated, mainnet, "http://127.0.0.1:8545")

(***************************************************************************)
(* Requests under a backend that answers: every fetch and every            *)
(* wallet-client operation in flight eventually returns or fails.          *)
(***************************************************************************)
\* the backend call of the request with that id comes back
Returns(id) ==
    \E call \in pending : \E outcome \in BackendOutcomes :
        call.req = id /\ BackendReturn(call, outcome)

\* the step takes the backend call of that request out of flight; of the
\* steps of NextLive only Returns(id) does
Answered(id) == \E call \in pending : call.req = id /\ pending' = pending \ {call}

NextLive ==
    \/ \E method \in RequestMethods : \E params \in ParamsFor(method) :
           Ready /\ Request(method, params)
    \/ \E id \in 1..MaxRequestId : Returns(id)
    \/ \E reject \in BOOLEAN : Ready /\ SetRejectSignature(reject)
    \/ \E reject \in BOOLEAN : Ready /\ SetRejectTransaction(reject)
    \/ Collect

SpecLive ==
    /\ Init
    /\ [][NextLive]_vars
    /\ \A id \in 1..MaxRequestId : WF_pending(Answered(id) /\ Returns(id))

\* the request with that id waits for its backend call
Waiting(id) == \E call \in pending : call.req = id

\* the request must have an outcome at once: a WalletState method, a method
\* without a handler case, or a write the flags reject
SettlesAtOnce ==
    \/ IsRequest(WALLET_METHODS \cup UnhandledMethods)
    \/ IsRequest({"eth_sendTransaction"}) /\ internal.rejectTransaction
    \/ IsRequest(signingMethods) /\ internal.rejectSignature

\* C39: when every backend call eventually returns or fails, every request
\* that waits for one is eventually settled, resolved with the call's result
\* or rejected with its error, and no request waits without a call in
\* flight; a WalletState request, an unsupported method and a rejected write
\* have their outcome without any backend call.
C39_EveryRequestSettles ==
    /\ \A id \in 1..MaxRequestId :
           Waiting(id) ~> (last.op = "settle" /\ last.req = id /\ ~Waiting(id)
                               /\ last.status = (IF last.input.kind = "result" THEN "ok" ELSE "error"))
    /\ [](last.op = "request" =>
              (last.status = "pending") = (\E call \in pending : call.req = last.req))
    /\ [](SettlesAtOnce => last.status # "pending" /\ last.issued = <<>>)
    /\ <>[](pending = {})

C39_Witness ==
    /\ last.op = "settle"
    /\ last.settled.api = "sendTransaction"
    /\ last.status = "error"
    /\ last.req = 2
    /\ pending = {}

(***************************************************************************)
(* The connector of connector.ts while it holds a provider.  The provider  *)
(* is the one connect() creates: the connector passes rpcUrl, chain,       *)
(* account and debug, so the provider's own chains and rpcUrls are the     *)
(* defaults.                                                               *)
(***************************************************************************)
connectorConfig == [chains |-> ChainsUndefined, rpcUrls |-> EmptyMap]

\* config.emitter.emit("change", { chainId }): noted among the events of the
\* call, the chain id in the numeric field
emitter_emit(m, event, chainId) ==
    [m EXCEPT !.emitted = Append(@, [event |-> event, args |-> Args(<<>>, <<>>, chainId, ""),
                                     seen |-> Seen(m), depth |-> m.depth])]

\* switchChain({ chainId }) with a provider held: the request, then setChain,
\* then the connector's change event
switchChain(m, chainId) ==
    LET m1 == request(m, "wallet_switchEthereumChain",
                      Params(TRUE, Hex0x(chainId), NoTx, "none"))
    IN IF m1.thrown THEN m1
       ELSE LET m2 == setChain(m1, chainId)
            IN IF m2.thrown THEN m2
               ELSE Return(emitter_emit(m2, "change", chainId), Res("chain", <<>>, Hex0x(chainId)))

\* onChainChanged(chainId) with a provider held: the id parsed from the hex
\* string, setChain, then the connector's change event
onChainChanged(m, chainId) ==
    LET id == parseInt16(chainId)
        m1 == setChain(m, id)
    IN IF m1.thrown THEN m1 ELSE emitter_emit(m1, "change", id)

InitConnector ==
    /\ internal = initialInternal(connectorConfig)
    /\ state = initialState(connectorConfig)
    /\ requestId = 0
    /\ listeners = NoListeners
    /\ pending = {}
    /\ connectEmits = 0
    /\ last = Last("connect", "", "", Cur)

SwitchChain(chainId) ==
    LET m == switchChain(Cur, chainId)
    IN Install(m) /\ last' = Last("switchChain", "chainId", chainId, m)

OnChainChanged(chainId) ==
    LET m == onChainChanged(Cur, chainId)
    IN Install(m) /\ last' = Last("onChainChanged", "chainId", chainId, m)

NextConnector ==
    \/ \E chainId \in ChainIdInputs : Idle /\ SwitchChain(chainId)
    \/ \E chainId \in ChainIdInputs : Idle /\ OnChainChanged(Hex0x(chainId))
    \/ \E event \in OnEvents : \E listener \in ListenerIds : Idle /\ On(event, listener)
    \/ \E event \in OnEvents : \E listener \in ListenerIds : Idle /\ RemoveListener(event, listener)
    \/ Collect

SpecConnector == InitConnector /\ [][NextConnector]_vars

\* the events of that name the call observed emitted itself
OwnEvents(name) == SelectSeq(OwnEmitted, LAMBDA e : e.event = name)

\* C40: switchChain with a provider held and a chain the provider supports
\* notifies every chainChanged listener of the provider exactly once and emits
\* the connector's change event once, with the new chain id; with a chain the
\* provider does not support it rejects and no change event is emitted.
C40_SwitchChainOnce ==
    last.op = "switchChain" =>
        IF includes(state.supportedChainIds, last.input)
        THEN /\ \A i \in 1..Len(listeners.chainChanged) :
                    TimesInvoked(listeners.chainChanged[i]) = 1
             /\ Len(OwnEvents("change")) = 1
             /\ OwnEvents("change")[1].args.code = last.input
        ELSE /\ last.status = "error"
             /\ OwnEvents("change") = <<>>

====
